---- MODULE Spec2Model ----
(***************************************************************************)
(* Model of scripts/cost-optimization.py: the CostOptimizationManager      *)
(* control loop (scaling decisions, budget guardrails, spot-interruption   *)
(* drain, run_optimization_cycle with _run_with_isolation) and the         *)
(* scheduler loop of setup_scheduled_optimization.                         *)
(*                                                                         *)
(* Units.  Utilization values are whole percents (0..100).  Money is in    *)
(* cents.  budget_utilization_percent is kept in hundredths of a percent   *)
(* (PercentScale), so that 90.0 is the number 9000.  Time is in seconds.   *)
(***************************************************************************)
EXTENDS Integers, Sequences, FiniteSets, TLC

\* ------------------------------------------------------------------ bounds
\* Largest MaxSize of the Auto Scaling Group explored.
MaxCapacity == 3
\* Scheduled jobs other than the interruption poll run in one behaviour.
MaxJobs == 2
\* Iterations of the scheduler loop (run_pending; sleep) explored.
MaxLoops == 3

\* ------------------------------------------------------- program constants
\* Hundredths of a percent per percent.
PercentScale == 100
\* config.budget_limit, in cents (200.0 USD).
BudgetLimit == 20000
\* config.target_utilization and config.scale_down_threshold defaults.
TargetUtilization == 70
ScaleDownThreshold == 20
\* _implement_aggressive_scaling's temporary thresholds.
AggressiveTarget == 60
AggressiveThreshold == 30
\* Seconds of notice the provider gives before reclaiming the instance.
NoticeWindow == 120
\* time.sleep(30) of the scheduler loop.
SleepSeconds == 30

Min2(a, b) == IF a <= b THEN a ELSE b
Max2(a, b) == IF a >= b THEN a ELSE b
Abs(a) == IF a >= 0 THEN a ELSE -a

\* ------------------------------------------------------------ input domains
\* Representative utilization readings around every threshold of the code
\* (20, 30, 40, 60, 70, 80, 85).
UtilValues == {10, 19, 20, 39, 40, 60, 85, 86, 90}
\* Representative results of _predict_utilization (always within 0..100).
PredictedValues == {20, 29, 30, 80, 81, 85}

\* Responses of autoscaling.describe_auto_scaling_groups.
DescribeResponses == {"ok", "empty", "error"}

NoExc == [raised |-> FALSE, msg |-> ""]
\* Exceptions a step function may raise: str(e) is the message, which is
\* the empty string for an exception constructed without arguments.
Exceptions == {[raised |-> TRUE, msg |-> ""], [raised |-> TRUE, msg |-> "boom"]}

VARIABLES
    asg_name,              \* self.asg_name: "none" (None) or the group's name
    asg,                   \* the fleet manager's record of the group
    config,                \* the mutable fields of the shared config object
    notice,                \* what the metadata service holds for instance-action
    clock,                 \* seconds since the notice was posted
    pc,                    \* position of the running program
    optimization_results,  \* step name -> result of _run_with_isolation
    executed,              \* step functions entered in the current cycle
    raised,                \* steps whose function raised in the current cycle
    start_capacity,        \* DesiredCapacity when the cycle started
    scaling_actions,       \* locals/return of implement_usage_pattern_scaling
    guardrail_actions,     \* return of implement_cost_guardrails
    budget_status,         \* return of check_budget_limits
    called,                \* operations the last guardrail evaluation invoked
    drain_log,             \* drain sub-steps attempted, in order, over the run
    drains,                \* times _handle_spot_termination was entered
    jobs_run,              \* scheduled (non-poll) jobs run so far
    loops,                 \* scheduler loop iterations completed
    polled,                \* the poll job has run in this loop iteration
    last_set,              \* the latest set_desired_capacity request issued
    pass_config,           \* thresholds the latest auto-scale pass compared against
    emergency_calls,       \* how the latest _emergency_scale_down went
    drain_started,         \* clock when the latest drain began (-1: none yet)
    pending,               \* operation -> capacity it has decided to request, not yet sent
    since_poll,            \* seconds since the interruption poll last ran
    telemetry,             \* what the two telemetry sources held at the latest reading
    gpu_metrics,           \* outcome of the latest get_gpu_utilization call
    hours,                 \* hours of wall-clock time since the program started
    price_cache,           \* /tmp/on_demand_prices_cache.json
    price_call,            \* the latest get_on_demand_prices call: inputs and outcome
    budget_call,           \* the latest check_budget_limits call made on its own
    history,               \* what the 7-day CloudWatch query answers
    usage_patterns,        \* outcome of the latest _analyze_usage_patterns call
    prediction,            \* the latest _predict_utilization call: arguments and outcome
    market,                \* the spot price history the market data source holds
    spot_call,             \* the latest get_current_spot_prices call: response and outcome
    spot_seen,             \* instance type -> timestamp of the quote last returned for it
    pricing,               \* the latest optimize_spot_instance_pricing call
    registered,            \* the jobs registered with the schedule library
    args,                  \* the parsed command line
    settings,              \* the fields of the config object the command line can set
    startup,               \* position of the program between import and its action
    cycle_status           \* how run_optimization_cycle ended

vars == <<asg_name, asg, config, notice, clock, pc, optimization_results,
          executed, raised, start_capacity, scaling_actions, guardrail_actions,
          budget_status, called, drain_log, drains, jobs_run, loops, polled,
          last_set, pass_config, emergency_calls, drain_started, pending,
          since_poll, telemetry, gpu_metrics, hours, price_cache, price_call,
          budget_call, history, usage_patterns, prediction, market, spot_call,
          spot_seen, pricing, registered, args, settings,
          startup, cycle_status>>

marketVars == <<market, spot_call, spot_seen, pricing>>

\* Variables written only by calls of single functions made on their own.
functionVars == <<telemetry, gpu_metrics, hours, price_cache, price_call, budget_call,
                  history, usage_patterns, prediction, marketVars, registered, args, settings, startup>>

\* Variables a handler of the manager may write.
handlerVars == <<asg, config, scaling_actions, guardrail_actions,
                 budget_status, called, drain_log, drains, clock, last_set,
                 pass_config, emergency_calls, drain_started>>

\* ------------------------------------------------- UtilizationMonitor
\* Answers of the CloudWatch query for GPUUtilization.
PrimaryInputs(U) ==
    {[kind |-> "error", avg |-> 0], [kind |-> "empty", avg |-> 0]}
        \cup {[kind |-> "data", avg |-> u] : u \in U}

\* Contents of /shared/gpu_metrics.json: absent, unreadable or malformed,
\* valid JSON without a 'gpu' key, or a 'gpu' object whose keys are present
\* (has = TRUE) or missing.
SecondaryInputs(U) ==
    {[kind |-> k, has |-> FALSE, utilization |-> 0, memory_utilization |-> 0,
      temperature_c |-> 0] : k \in {"absent", "unreadable", "nogpu", "gpu"}}
        \cup {[kind |-> "gpu", has |-> TRUE, utilization |-> u,
               memory_utilization |-> 55, temperature_c |-> 65] : u \in U}

\* get_gpu_utilization: the CloudWatch value first, then every field replaced
\* by the shared file's 'gpu' object when the file has one.
get_gpu_utilization(primary, secondary) ==
    LET afterPrimary ==
            [gpu_utilization |-> IF primary.kind = "data" THEN primary.avg ELSE 0,
             memory_utilization |-> 0,
             temperature |-> 0]
    IN  IF secondary.kind = "gpu"
        THEN [gpu_utilization |-> IF secondary.has THEN secondary.utilization ELSE 0,
              memory_utilization |-> IF secondary.has THEN secondary.memory_utilization ELSE 0,
              temperature |-> IF secondary.has THEN secondary.temperature_c ELSE 0]
        ELSE afterPrimary

\* No call has been made yet.
NoTelemetry == [primary |-> [kind |-> "none", avg |-> 0],
                secondary |-> [kind |-> "none", has |-> FALSE, utilization |-> 0,
                               memory_utilization |-> 0, temperature_c |-> 0]]
ZeroMetrics == [gpu_utilization |-> 0, memory_utilization |-> 0, temperature |-> 0]
NoCall == [status |-> "never", value |-> ZeroMetrics]

GetGpuUtilizationSecondaryUncaught(primary, secondary) ==
    IF secondary.kind = "unreadable"
    THEN [status |-> "raised", value |-> ZeroMetrics]
    ELSE [status |-> "returned", value |-> get_gpu_utilization(primary, secondary)]

\* How a call of get_gpu_utilization ends: each source is read inside its own
\* try block that catches Exception, and the dictionary is returned after
\* both.
GetGpuUtilizationCall(primary, secondary) ==
    [status |-> "returned", value |-> get_gpu_utilization(primary, secondary)]

\* The gpu_utilization values a handler can read under the inputs of In.
GpuReadings(In) ==
    {get_gpu_utilization(p, s).gpu_utilization : p \in In.primary, s \in In.secondary}

\* ---------------------------------------------------------- UsageProfile
MaxPoints == 2
\* Bucket averages are kept in hundredths of a percent, predictions in
\* ten-thousandths, so that the weights 0.7 and 0.3 and the factors 1.2, 0.8
\* and 0.9 stay whole numbers.
AverageScale == 100
PredictionScale == 10000
\* The default of an empty bucket and of a failed prediction, in percent.
DefaultUtilization == 50

\* Hourly datapoints of the query: hour of day, day of week, Average.
Datapoints == {[hour |-> h, day |-> d, Average |-> a] : h \in {3, 10}, d \in {0, 6}, a \in {0, 90}}

RECURSIVE SeqsUpTo(_, _)
SeqsUpTo(S, n) ==
    IF n = 0 THEN {<<>>}
    ELSE LET shorter == SeqsUpTo(S, n - 1)
         IN  shorter \cup {Append(q, x) : q \in shorter, x \in S}

\* Answers of cloudwatch.get_metric_statistics over the last seven days.
Histories ==
    {[kind |-> "error", points |-> <<>>]}
        \cup {[kind |-> "data", points |-> q] : q \in SeqsUpTo(Datapoints, MaxPoints)}

NoHistory == [kind |-> "data", points |-> <<>>]

RECURSIVE SumAverages(_)
SumAverages(q) == IF q = <<>> THEN 0 ELSE Head(q).Average + SumAverages(Tail(q))

BucketAverageDefaultZero(values) ==
    IF values # <<>>
    THEN (SumAverages(values) * AverageScale) \div Len(values)
    ELSE 0

\* sum(values) / len(values), or 50.0 for a bucket without values.
BucketAverage(values) ==
    IF values # <<>>
    THEN (SumAverages(values) * AverageScale) \div Len(values)
    ELSE DefaultUtilization * AverageScale

DefaultPatterns ==
    [hourly_patterns |-> [h \in 0..23 |-> DefaultUtilization * AverageScale],
     daily_patterns |-> [d \in 0..6 |-> DefaultUtilization * AverageScale],
     data_points |-> 0]

\* _analyze_usage_patterns: the datapoints sorted into 24 hourly and 7 daily
\* buckets and averaged; the default patterns when the query raises.
AnalyzeUsagePatterns(hist) ==
    IF hist.kind = "error"
    THEN DefaultPatterns
    ELSE [hourly_patterns |->
              [h \in 0..23 |-> BucketAverage(SelectSeq(hist.points, LAMBDA p : p.hour = h))],
          daily_patterns |->
              [d \in 0..6 |-> BucketAverage(SelectSeq(hist.points, LAMBDA p : p.day = d))],
          data_points |-> Len(hist.points)]

NoPatterns == [status |-> "never", value |-> DefaultPatterns]

PredictUtilizationWeekendFirst(patterns, hour, day) ==
    LET hourly_avg == patterns.hourly_patterns[hour]
        daily_avg == patterns.daily_patterns[day]
        predicted == (hourly_avg * 7) + (daily_avg * 3)
        adjusted == IF 9 <= hour /\ hour <= 17 /\ day < 5 THEN predicted * 12
                    ELSE IF day >= 5 THEN predicted * 9
                    ELSE IF hour < 6 \/ hour > 22 THEN predicted * 8
                    ELSE predicted * 10
    IN  Min2(100 * PredictionScale, Max2(0, adjusted))

\* _predict_utilization on a profile that has every bucket: the weighted
\* blend, the first adjustment that applies, the clamp.
PredictUtilization(patterns, hour, day) ==
    LET hourly_avg == patterns.hourly_patterns[hour]
        daily_avg == patterns.daily_patterns[day]
        predicted == (hourly_avg * 7) + (daily_avg * 3)
        adjusted == IF 9 <= hour /\ hour <= 17 /\ day < 5 THEN predicted * 12
                    ELSE IF hour < 6 \/ hour > 22 THEN predicted * 8
                    ELSE IF day >= 5 THEN predicted * 9
                    ELSE predicted * 10
    IN  Min2(100 * PredictionScale, Max2(0, adjusted))

NoPrediction == [status |-> "never", hour |-> 0, day |-> 0, value |-> 0]

\* ----------------------------------------------------------- PriceOracle
MaxHours == 48
\* timedelta(hours=24): the age from which the cache is no longer used.
CacheHours == 24

\* Two of the four instance types of the loop, which treats all alike.
InstanceTypes == {"g4dn.xlarge", "g5.xlarge"}

\* Prices in cents; -1 stands for a key the dictionary does not have.
NoPrices == [t \in InstanceTypes |-> -1]

\* The hardcoded table (both copies of it are equal).
FallbackPrices == [t \in InstanceTypes |-> IF t = "g4dn.xlarge" THEN 119 ELSE 121]

\* What get_products does for one instance type: it raises, it returns an
\* empty PriceList, or it returns a price.
LiveAnswers == {[kind |-> "error", usd |-> 0], [kind |-> "empty", usd |-> 0],
                [kind |-> "price", usd |-> 105]}

\* The cache file: missing, not loadable (truncated, no JSON, a timestamp
\* fromisoformat rejects) or as get_on_demand_prices wrote it.
NoCache == [state |-> "absent", timestamp |-> 0, prices |-> NoPrices]
CorruptCache == [state |-> "corrupt", timestamp |-> 0, prices |-> NoPrices]

\* How the write of the cache file goes: done, open() fails and the file
\* stays as it was, or json.dump fails and leaves a truncated file.
CacheWrites == {"ok", "open_failed", "dump_failed"}

\* The loop over the instance types: the live price, the table's price when
\* get_products raised, no entry when the PriceList was empty.
FetchedPrices(live) ==
    [t \in InstanceTypes |->
        CASE live[t].kind = "price" -> live[t].usd
          [] live[t].kind = "error" -> FallbackPrices[t]
          [] OTHER -> -1]

\* Whether the except branch returns the cached prices.
CacheUsable(cache, now) ==
    cache.state = "valid" /\ now - cache.timestamp < CacheHours

GetOnDemandPricesCacheReadUncaught(client_ok, live, cache, now) ==
    IF client_ok
    THEN [status |-> "returned", source |-> "live", prices |-> FetchedPrices(live)]
    ELSE IF cache.state = "corrupt"
    THEN [status |-> "raised", source |-> "none", prices |-> NoPrices]
    ELSE IF CacheUsable(cache, now)
    THEN [status |-> "returned", source |-> "cache", prices |-> cache.prices]
    ELSE [status |-> "returned", source |-> "table", prices |-> FallbackPrices]

\* What get_on_demand_prices returns.  The except branch of the outer try is
\* reached only when boto3.client raises: every get_products call has its own
\* handler, and so has the write of the cache.
GetOnDemandPrices(client_ok, live, cache, now) ==
    IF client_ok
    THEN [status |-> "returned", source |-> "live", prices |-> FetchedPrices(live)]
    ELSE IF CacheUsable(cache, now)
    THEN [status |-> "returned", source |-> "cache", prices |-> cache.prices]
    ELSE [status |-> "returned", source |-> "table", prices |-> FallbackPrices]

CacheAfterCallKeepingTimestamp(client_ok, live, cache, now, write) ==
    IF ~client_ok \/ write = "open_failed"
    THEN cache
    ELSE IF write = "dump_failed"
    THEN CorruptCache
    ELSE [state |-> "valid",
          timestamp |-> IF cache.state = "valid" THEN cache.timestamp ELSE now,
          prices |-> FetchedPrices(live)]

\* The cache file after the call: written only on the path of the try block.
CacheAfterCall(client_ok, live, cache, now, write) ==
    IF ~client_ok \/ write = "open_failed"
    THEN cache
    ELSE IF write = "dump_failed"
    THEN CorruptCache
    ELSE [state |-> "valid", timestamp |-> now, prices |-> FetchedPrices(live)]

NoPriceCall ==
    [status |-> "never", source |-> "none", prices |-> NoPrices, at |-> 0,
     client_ok |-> TRUE, live |-> [t \in InstanceTypes |-> [kind |-> "empty", usd |-> 0]],
     write |-> "ok", cache_before |-> NoCache]

\* ------------------------------------------------------------ SpotMarket
\* Bound on the entries the price history holds.
MaxEntries == 2
\* Bound on the hours the market's clock runs.
MarketHours == 24

\* Entries of SpotPriceHistory: prices in cents, timestamps in hours.
HistoryEntries(stamps) ==
    {[InstanceType |-> t, Timestamp |-> ts, SpotPrice |-> sp] :
        t \in InstanceTypes, ts \in stamps, sp \in {20, 60}}

NoQuote == [present |-> FALSE, price |-> 0, timestamp |-> 0]
NoQuotes == [t \in InstanceTypes |-> NoQuote]

KeepsEntryOldest(current, price) ==
    ~current.present \/ price.Timestamp < current.timestamp

KeepsEntryLast(current, price) ==
    ~current.present \/ price.Timestamp >= 0

\* The test of the loop: the type is not in current_prices yet, or the entry
\* is newer than the one kept for it.
KeepsEntry(current, price) ==
    ~current.present \/ price.Timestamp > current.timestamp

RECURSIVE CurrentPrices(_, _)
\* The loop of get_current_spot_prices over the response, in its order.
CurrentPrices(response, current_prices) ==
    IF response = <<>>
    THEN current_prices
    ELSE LET price == Head(response)
             kept == IF KeepsEntry(current_prices[price.InstanceType], price)
                     THEN [current_prices EXCEPT ![price.InstanceType] =
                              [present |-> TRUE, price |-> price.SpotPrice,
                               timestamp |-> price.Timestamp]]
                     ELSE current_prices
         IN  CurrentPrices(Tail(response), kept)

\* get_current_spot_prices: the dictionary built from the response, or the
\* empty dictionary when the query raises.
GetCurrentSpotPrices(query_ok, response) ==
    IF query_ok THEN CurrentPrices(response, NoQuotes) ELSE NoQuotes

NoSpotCall == [status |-> "never", query_ok |-> TRUE, response |-> <<>>, prices |-> NoQuotes]

\* The entries of the market with the greatest timestamp of their type.
LatestEntries(log) ==
    {e \in log : \A f \in log : f.InstanceType = e.InstanceType => f.Timestamp <= e.Timestamp}

\* The answers describe_spot_price_history can give: entries of the history
\* in any order, each once, with for every type that has entries one of its
\* latest (the price in effect at the end of the queried hour).
Responses(log) ==
    {q \in SeqsUpTo(log, MaxEntries) :
        /\ \A i, j \in 1..Len(q) : i # j => q[i] # q[j]
        /\ \A e \in LatestEntries(log) :
              \E i \in 1..Len(q) :
                 q[i].InstanceType = e.InstanceType /\ q[i].Timestamp = e.Timestamp}

\* --------------------------------------------------------- SpotOptimizer
\* What a call of get_current_spot_prices leaves of its dictionary for the
\* optimizer: the price per instance type in cents, -1 without an entry.
SpotQuotes == [InstanceTypes -> {-1, 20, 75, 76}]

\* What get_on_demand_prices returns, -1 for a type without an entry.
OnDemandQuotes == [InstanceTypes -> {-1, 20, 100}]

\* The orders in which a dictionary can hold the instance types.
KeyOrders ==
    {q \in SeqsUpTo(InstanceTypes, Cardinality(InstanceTypes)) :
        /\ Len(q) = Cardinality(InstanceTypes)
        /\ \A i, j \in 1..Len(q) : i # j => q[i] # q[j]}

\* calculate_potential_savings: an entry for every type with a spot price
\* and an on-demand price.  savings_percent is hourly_savings /
\* on_demand_price * 100, kept as that fraction.
SavingsAnalysis(spot_prices, on_demand_prices) ==
    [t \in InstanceTypes |->
        IF spot_prices[t] # -1 /\ on_demand_prices[t] # -1
        THEN [present |-> TRUE, spot_price |-> spot_prices[t],
              on_demand_price |-> on_demand_prices[t],
              hourly_savings |-> on_demand_prices[t] - spot_prices[t]]
        ELSE [present |-> FALSE, spot_price |-> 0, on_demand_price |-> 1, hourly_savings |-> 0]]

\* a's savings_percent > b's, both on-demand prices being positive.
SavesMore(a, b) ==
    a.hourly_savings * b.on_demand_price > b.hourly_savings * a.on_demand_price

\* best_option = None, best_savings = 0.
NoBest == [option |-> "none", on_demand_price |-> 1, hourly_savings |-> 0]

\* The test of the loop without the price ceiling.
ImprovesBestAnyPrice(analysis, best, max_spot_price) ==
    SavesMore(analysis, best)

\* The test of the loop that takes the last entry with savings.
ImprovesBestLast(analysis, best, max_spot_price) ==
    SavesMore(analysis, NoBest) /\ analysis.spot_price <= max_spot_price

\* The test of the loop (line 413).
ImprovesBest(analysis, best, max_spot_price) ==
    SavesMore(analysis, best) /\ analysis.spot_price <= max_spot_price

RECURSIVE BestOption(_, _, _, _)
\* The loop over savings_analysis.items() in the dictionary's order.
BestOption(order, savings_analysis, max_spot_price, best) ==
    IF order = <<>>
    THEN best
    ELSE LET t == Head(order)
             analysis == savings_analysis[t]
             next == IF analysis.present /\ ImprovesBest(analysis, best, max_spot_price)
                     THEN [option |-> t, on_demand_price |-> analysis.on_demand_price,
                           hourly_savings |-> analysis.hourly_savings]
                     ELSE best
         IN  BestOption(Tail(order), savings_analysis, max_spot_price, next)

\* optimize_spot_instance_pricing: its own query of the spot prices, the
\* analysis (built on a second query), the choice, and the log line that
\* looks the choice up in the first query's dictionary.
OptimizeSpotInstancePricing(spot_prices, analysed, on_demand_prices, order, max_spot_price) ==
    LET savings_analysis == SavingsAnalysis(analysed, on_demand_prices)
        best == BestOption(order, savings_analysis, max_spot_price, NoBest)
    IN  [status |-> IF best.option # "none" /\ spot_prices[best.option] = -1
                    THEN "raised" ELSE "returned",
         spot_prices |-> spot_prices, analysed |-> analysed,
         on_demand_prices |-> on_demand_prices, order |-> order,
         max_spot_price |-> max_spot_price, best_option |-> best.option]

NoPricing ==
    [status |-> "never", spot_prices |-> [t \in InstanceTypes |-> -1],
     analysed |-> [t \in InstanceTypes |-> -1],
     on_demand_prices |-> [t \in InstanceTypes |-> -1],
     order |-> <<>>, max_spot_price |-> 0, best_option |-> "none"]

\* ------------------------------------------------------- fleet manager
\* The operations that write the group's desired capacity.
Writers == {"auto_scaling", "usage_pattern_scaling", "aggressive_scaling",
            "emergency_scale_down", "replacement"}

NoSet == [by |-> "none", value |-> 0, ok |-> FALSE]

\* Whether the fleet manager takes a set_desired_capacity request: the call
\* must not fail, and a value outside [MinSize, MaxSize] is rejected.
SetAccepted(group, n, callOk) ==
    callOk /\ group.MinSize <= n /\ n <= group.MaxSize

\* autoscaling.set_desired_capacity: a set-latest-wins register.
SetDesiredCapacity(group, n, callOk) ==
    IF SetAccepted(group, n, callOk)
    THEN [group EXCEPT !.DesiredCapacity = n]
    ELSE group

\* One set_desired_capacity request issued by operation `by`.
RequestCapacity(by, n, In) ==
    \E callOk \in In.set_ok :
        /\ asg' = SetDesiredCapacity(asg, n, callOk)
        /\ last_set' = [by |-> by, value |-> n, ok |-> SetAccepted(asg, n, callOk)]

\* ------------------------------------------------ ScalingDecisionEngine
\* The chain without its upper clamp: the proactive rule adds one instance
\* whether or not the group is at MaxSize already.
PatternDecideUnclamped(current_capacity, min_capacity, max_capacity, current_utilization, predicted_utilization) ==
    IF predicted_utilization > 80
    THEN [target_capacity |-> current_capacity + 1, scaling_action |-> "scale_up_proactive"]
    ELSE IF predicted_utilization < 30 /\ current_capacity > min_capacity /\ current_utilization < 40
    THEN [target_capacity |-> Max2(current_capacity - 1, min_capacity),
          scaling_action |-> "scale_down_proactive"]
    ELSE [target_capacity |-> current_capacity, scaling_action |-> "none"]

\* The chain with the reactive rules tested before the predictive ones.
PatternDecideReactiveFirst(current_capacity, min_capacity, max_capacity, current_utilization, predicted_utilization) ==
    IF current_utilization > 85 /\ current_capacity < max_capacity
    THEN [target_capacity |-> Min2(current_capacity + 1, max_capacity),
          scaling_action |-> "scale_up_reactive"]
    ELSE IF current_utilization < 20 /\ current_capacity > min_capacity
    THEN [target_capacity |-> Max2(current_capacity - 1, min_capacity),
          scaling_action |-> "scale_down_reactive"]
    ELSE IF predicted_utilization > 80 /\ current_capacity < max_capacity
    THEN [target_capacity |-> Min2(current_capacity + 1, max_capacity),
          scaling_action |-> "scale_up_proactive"]
    ELSE IF predicted_utilization < 30 /\ current_capacity > min_capacity /\ current_utilization < 40
    THEN [target_capacity |-> Max2(current_capacity - 1, min_capacity),
          scaling_action |-> "scale_down_proactive"]
    ELSE [target_capacity |-> current_capacity, scaling_action |-> "none"]

\* The chain whose proactive scale-down lacks the test of the current reading.
PatternDecideOnPredictionAlone(current_capacity, min_capacity, max_capacity, current_utilization, predicted_utilization) ==
    IF predicted_utilization > 80 /\ current_capacity < max_capacity
    THEN [target_capacity |-> Min2(current_capacity + 1, max_capacity),
          scaling_action |-> "scale_up_proactive"]
    ELSE IF predicted_utilization < 30 /\ current_capacity > min_capacity
    THEN [target_capacity |-> Max2(current_capacity - 1, min_capacity),
          scaling_action |-> "scale_down_proactive"]
    ELSE IF current_utilization > 85 /\ current_capacity < max_capacity
    THEN [target_capacity |-> Min2(current_capacity + 1, max_capacity),
          scaling_action |-> "scale_up_reactive"]
    ELSE IF current_utilization < 20 /\ current_capacity > min_capacity
    THEN [target_capacity |-> Max2(current_capacity - 1, min_capacity),
          scaling_action |-> "scale_down_reactive"]
    ELSE [target_capacity |-> current_capacity, scaling_action |-> "none"]

\* The if/elif chain of implement_usage_pattern_scaling (lines 904-930).
PatternDecide(current_capacity, min_capacity, max_capacity, current_utilization, predicted_utilization) ==
    IF predicted_utilization > 80 /\ current_capacity < max_capacity
    THEN [target_capacity |-> Min2(current_capacity + 1, max_capacity),
          scaling_action |-> "scale_up_proactive"]
    ELSE IF predicted_utilization < 30 /\ current_capacity > min_capacity
    THEN IF current_utilization < 40
         THEN [target_capacity |-> Max2(current_capacity - 1, min_capacity),
               scaling_action |-> "scale_down_proactive"]
         ELSE [target_capacity |-> current_capacity, scaling_action |-> "none"]
    ELSE IF current_utilization > 85 /\ current_capacity < max_capacity
    THEN [target_capacity |-> Min2(current_capacity + 1, max_capacity),
          scaling_action |-> "scale_up_reactive"]
    ELSE IF current_utilization < 20 /\ current_capacity > min_capacity
    THEN [target_capacity |-> Max2(current_capacity - 1, min_capacity),
          scaling_action |-> "scale_down_reactive"]
    ELSE [target_capacity |-> current_capacity, scaling_action |-> "none"]

NoScalingActions ==
    [status |-> "never", current_capacity |-> 0, min_capacity |-> 0,
     max_capacity |-> 0, current_utilization |-> 0, current_prediction |-> 0,
     target_capacity |-> 0, scaling_action |-> "none"]

\* The locals of implement_usage_pattern_scaling once it has decided.
Decided(group, cu, pu) ==
    LET d == PatternDecide(group.DesiredCapacity, group.MinSize, group.MaxSize, cu, pu)
    IN  [status |-> "decided",
         current_capacity |-> group.DesiredCapacity,
         min_capacity |-> group.MinSize,
         max_capacity |-> group.MaxSize,
         current_utilization |-> cu,
         current_prediction |-> pu,
         target_capacity |-> d.target_capacity,
         scaling_action |-> d.scaling_action]

\* implement_usage_pattern_scaling, the whole handler: prediction, reading,
\* describe, decision, set_desired_capacity.  Without a group it returns its
\* scaling_actions with the prediction only; every failure inside is caught
\* and returned as {'error': ...} (status "error" before the decision,
\* "set_failed" when set_desired_capacity raised after it).
implement_usage_pattern_scaling(In) ==
    /\ \E pu \in In.predicted, cu \in GpuReadings(In) :
        IF asg_name = "none"
        THEN /\ scaling_actions' = [NoScalingActions EXCEPT !.status = "no_asg",
                                                            !.current_prediction = pu]
             /\ UNCHANGED <<asg, last_set>>
        ELSE \E resp \in In.describe :
            IF resp = "error"
            THEN /\ scaling_actions' = [NoScalingActions EXCEPT !.status = "error"]
                 /\ UNCHANGED <<asg, last_set>>
            ELSE IF resp = "empty"
            THEN /\ scaling_actions' = [NoScalingActions EXCEPT !.status = "not_found",
                                                                !.current_prediction = pu]
                 /\ UNCHANGED <<asg, last_set>>
            ELSE LET sa == Decided(asg, cu, pu)
                 IN  IF sa.target_capacity = sa.current_capacity
                     THEN /\ scaling_actions' = sa
                          /\ UNCHANGED <<asg, last_set>>
                     ELSE /\ RequestCapacity("usage_pattern_scaling", sa.target_capacity, In)
                          /\ scaling_actions' =
                                 [sa EXCEPT !.status = IF last_set'.ok THEN "decided" ELSE "set_failed"]
    /\ UNCHANGED <<config, guardrail_actions, budget_status, called,
                   drain_log, drains, clock, pass_config, emergency_calls, drain_started>>

\* ------------------------------------------------- basic auto-scale check
\* Answers to check_idle_instances' queries: the describe call fails, finds no
\* group, or yields the instances' average utilizations over the idle window.
IdleInputs ==
    {[kind |-> "error", avgs |-> {}], [kind |-> "empty", avgs |-> {}]}
        \cup {[kind |-> "ok", avgs |-> A] : A \in {{}, {10}, {25}, {50}, {10, 50}}}

\* check_idle_instances: how many instances it returns as idle.
check_idle_instances(cfg, idle) ==
    IF asg_name = "none" \/ idle.kind # "ok"
    THEN 0
    ELSE Cardinality({a \in idle.avgs : a < cfg.scale_down_threshold})

\* No auto-scale pass has compared a reading against the thresholds yet.
NoPass ==
    [by |-> "none", target_utilization |-> 0, scale_down_threshold |-> 0,
     current_utilization |-> 0, current_capacity |-> 0, idle_instances |-> -1,
     new_capacity |-> -1]

\* The auto-scale check scaling down without asking for idle instances.
AutoScaleTargetIgnoringIdle(cfg, group, current_utilization, idle_count) ==
    IF current_utilization > cfg.target_utilization /\ group.DesiredCapacity < group.MaxSize
    THEN Min2(group.DesiredCapacity + 1, group.MaxSize)
    ELSE IF current_utilization < cfg.scale_down_threshold /\ group.DesiredCapacity > group.MinSize
    THEN Max2(group.DesiredCapacity - 1, group.MinSize)
    ELSE -1

\* The auto-scale check with a proportional step: straight to MaxSize when
\* the reading is over the target.
AutoScaleTargetProportional(cfg, group, current_utilization, idle_count) ==
    IF current_utilization > cfg.target_utilization /\ group.DesiredCapacity < group.MaxSize
    THEN group.MaxSize
    ELSE IF current_utilization < cfg.scale_down_threshold /\ group.DesiredCapacity > group.MinSize
    THEN IF idle_count > 0
         THEN Max2(group.DesiredCapacity - 1, group.MinSize)
         ELSE -1
    ELSE -1

\* The value implement_auto_scaling asks the fleet manager to set, or -1 when
\* it makes no set_desired_capacity call (lines 523-543).
AutoScaleTarget(cfg, group, current_utilization, idle_count) ==
    IF current_utilization > cfg.target_utilization /\ group.DesiredCapacity < group.MaxSize
    THEN Min2(group.DesiredCapacity + 1, group.MaxSize)
    ELSE IF current_utilization < cfg.scale_down_threshold /\ group.DesiredCapacity > group.MinSize
    THEN IF idle_count > 0
         THEN Max2(group.DesiredCapacity - 1, group.MinSize)
         ELSE -1
    ELSE -1

\* Whether the pass reaches the call of check_idle_instances (line 535).
ChecksIdle(cfg, group, current_utilization) ==
    /\ ~(current_utilization > cfg.target_utilization /\ group.DesiredCapacity < group.MaxSize)
    /\ current_utilization < cfg.scale_down_threshold
    /\ group.DesiredCapacity > group.MinSize

\* implement_auto_scaling run with the thresholds of cfg: the reading, the
\* describe call, the decision and the set_desired_capacity call.  Errors of
\* the fleet manager are caught inside the handler.
AutoScalingBody(cfg, by, In) ==
    IF asg_name = "none"
    THEN UNCHANGED <<asg, last_set, pass_config>>
    ELSE \E resp \in In.describe :
        IF resp # "ok"
        THEN UNCHANGED <<asg, last_set, pass_config>>
        ELSE \E cu \in GpuReadings(In),
                idle_count \in {check_idle_instances(cfg, i) : i \in In.idle} :
              LET t == AutoScaleTarget(cfg, asg, cu, idle_count)
              IN  /\ pass_config' = [by |-> by,
                                     target_utilization |-> cfg.target_utilization,
                                     scale_down_threshold |-> cfg.scale_down_threshold,
                                     current_utilization |-> cu,
                                     current_capacity |-> asg.DesiredCapacity,
                                     idle_instances |-> IF ChecksIdle(cfg, asg, cu)
                                                        THEN idle_count ELSE -1,
                                     new_capacity |-> t]
                  /\ IF t = -1
                     THEN UNCHANGED <<asg, last_set>>
                     ELSE RequestCapacity(by, t, In)

implement_auto_scaling(In) ==
    /\ AutoScalingBody(config, "auto_scaling", In)
    /\ UNCHANGED <<config, scaling_actions, guardrail_actions, budget_status,
                   called, drain_log, drains, clock, emergency_calls, drain_started>>

\* --------------------------------------------------------- BudgetGuardrail
\* Spot price of config.instance_type in cents per hour, when the market data
\* has an entry for it.
SpotInputs ==
    {[present |-> FALSE, price |-> 0]}
        \cup {[present |-> TRUE, price |-> p] : p \in {20, 25, 26, 60}}

\* Calendar positions datetime.now() may return.
Dates ==
    {[month |-> 2, day |-> 14, leap |-> FALSE],
     [month |-> 6, day |-> 29, leap |-> FALSE],
     [month |-> 6, day |-> 30, leap |-> FALSE],
     [month |-> 12, day |-> 30, leap |-> FALSE]}

MonthLength(month, leap) ==
    IF month = 2 THEN (IF leap THEN 29 ELSE 28)
    ELSE IF month \in {4, 6, 9, 11} THEN 30 ELSE 31

RECURSIVE DayOfYear(_, _)
\* Days from 1 January to the first day of the month.
DayOfYear(month, leap) ==
    IF month = 1 THEN 0 ELSE DayOfYear(month - 1, leap) + MonthLength(month - 1, leap)

\* days_in_month of check_budget_limits (line 706): the first day of month
\* (month % 12 + 1) of the SAME year minus the first day of this month.
DaysInMonth(now) ==
    DayOfYear((now.month % 12) + 1, now.leap) - DayOfYear(now.month, now.leap)

\* monitor_daily_costs: 24 hours at the current spot price, 0 without a quote.
monitor_daily_costs(spot) == IF spot.present THEN spot.price * 24 ELSE 0

\* check_budget_limits (lines 705-722).
check_budget_limits(now, spot) ==
    LET days_in_month == DaysInMonth(now)
        days_elapsed == now.day
        estimated_daily_cost == monitor_daily_costs(spot)
        estimated_monthly_cost == estimated_daily_cost * days_in_month
        actual_monthly_cost == estimated_daily_cost * days_elapsed
    IN  [budget_limit |-> BudgetLimit,
         estimated_monthly_cost |-> estimated_monthly_cost,
         actual_monthly_cost |-> actual_monthly_cost,
         budget_utilization_percent |->
             (actual_monthly_cost * 100 * PercentScale) \div BudgetLimit,
         projected_overage |-> Max2(0, estimated_monthly_cost - BudgetLimit),
         days_remaining |-> days_in_month - days_elapsed]

NoBudgetStatus ==
    [budget_limit |-> 0, estimated_monthly_cost |-> 0, actual_monthly_cost |-> 0,
     budget_utilization_percent |-> 0, projected_overage |-> 0, days_remaining |-> 0]

NoBudgetCall ==
    [status |-> "never", now |-> [month |-> 1, day |-> 1, leap |-> FALSE],
     spot |-> [present |-> FALSE, price |-> 0], value |-> NoBudgetStatus]

\* The budget statuses an evaluation can compute under the inputs of In.
BudgetStatuses(In) == {check_budget_limits(now, spot) : now \in In.dates, spot \in In.spots}

\* The branch implement_cost_guardrails takes (lines 751 and 762).
GuardrailBranch(status) ==
    IF status.budget_utilization_percent > 90 * PercentScale
    THEN "emergency"
    ELSE IF status.projected_overage * 10 > status.budget_limit * 2
    THEN "preventive"
    ELSE "normal"

NoGuardrailActions ==
    [budget_check |-> FALSE, emergency_scale_down |-> FALSE,
     instance_termination |-> FALSE, resource_cleanup |-> FALSE]

\* The emergency scale-down that takes one instance off instead of going to
\* MinSize.
EmergencyScaleDownOneStep(In, returned) ==
    \/ /\ asg_name = "none"
       /\ returned = FALSE
       /\ emergency_calls' = "skipped"
       /\ UNCHANGED <<asg, last_set>>
    \/ /\ asg_name # "none"
       /\ \E resp \in In.describe :
            /\ resp # "ok"
            /\ emergency_calls' = IF resp = "error" THEN "describe_error" ELSE "not_found"
       /\ returned = FALSE
       /\ UNCHANGED <<asg, last_set>>
    \/ /\ asg_name # "none"
       /\ "ok" \in In.describe
       /\ \E callOk \in In.set_ok :
            LET n == Max2(asg.DesiredCapacity - 1, asg.MinSize)
            IN  /\ returned = callOk
                /\ emergency_calls' = IF callOk THEN "ok" ELSE "set_error"
                /\ asg' = SetDesiredCapacity(asg, n, callOk)
                /\ last_set' = [by |-> "emergency_scale_down", value |-> n,
                                ok |-> SetAccepted(asg, n, callOk)]

\* _emergency_scale_down returning `returned`: False without a group
\* ("skipped"), when the describe call raises ("describe_error") or finds no
\* group ("not_found"), or when the set call raises ("set_error"); True once
\* the fleet manager has taken the request for MinSize (lines 783-805).
EmergencyScaleDown(In, returned) ==
    \/ /\ asg_name = "none"
       /\ returned = FALSE
       /\ emergency_calls' = "skipped"
       /\ UNCHANGED <<asg, last_set>>
    \/ /\ asg_name # "none"
       /\ \E resp \in In.describe :
            /\ resp # "ok"
            /\ emergency_calls' = IF resp = "error" THEN "describe_error" ELSE "not_found"
       /\ returned = FALSE
       /\ UNCHANGED <<asg, last_set>>
    \/ /\ asg_name # "none"
       /\ "ok" \in In.describe
       /\ \E callOk \in In.set_ok :
            /\ returned = callOk
            /\ emergency_calls' = IF callOk THEN "ok" ELSE "set_error"
            /\ asg' = SetDesiredCapacity(asg, asg.MinSize, callOk)
            /\ last_set' = [by |-> "emergency_scale_down", value |-> asg.MinSize,
                            ok |-> SetAccepted(asg, asg.MinSize, callOk)]

\* Answers of ec2.describe_snapshots: a failure, or the number of snapshots
\* older than the one-day cutoff.
SnapshotInputs == {[kind |-> "error", old |-> 0], [kind |-> "ok", old |-> 0],
                   [kind |-> "ok", old |-> 1]}

\* _emergency_resource_cleanup's return value: docker stop counts one cleaned
\* resource when it ran, each old snapshot one more; a failing snapshot query
\* makes the whole cleanup return False.
EmergencyResourceCleanup(dockerOk, snap) ==
    IF snap.kind = "error"
    THEN FALSE
    ELSE (IF dockerOk THEN 1 ELSE 0) + snap.old > 0

\* The thresholds _implement_aggressive_scaling writes into the shared config
\* before its scaling pass (lines 845-850) ...
Tightened(cfg) ==
    [cfg EXCEPT !.target_utilization = Min2(cfg.target_utilization, AggressiveTarget),
                !.scale_down_threshold = Max2(cfg.scale_down_threshold, AggressiveThreshold)]

\* The reset that forgets the scale-down threshold.
RestoredTargetOnly(cfg, original) ==
    [cfg EXCEPT !.target_utilization = original.target_utilization]

\* ... and the config after it has reset them (lines 855-856).
Restored(cfg, original) ==
    [cfg EXCEPT !.target_utilization = original.target_utilization,
                !.scale_down_threshold = original.scale_down_threshold]

\* The pass whose reset is skipped when its set_desired_capacity call failed
\* (the error leaving implement_auto_scaling instead of being caught in it).
ImplementAggressiveScalingNoResetOnError(In) ==
    /\ AutoScalingBody(Tightened(config), "aggressive_scaling", In)
    /\ config' = IF last_set'.by = "aggressive_scaling" /\ ~last_set'.ok
                 THEN Tightened(config)
                 ELSE Restored(Tightened(config), config)

\* _implement_aggressive_scaling: one implement_auto_scaling pass under the
\* tightened thresholds, then the reset.
ImplementAggressiveScaling(In) ==
    /\ AutoScalingBody(Tightened(config), "aggressive_scaling", In)
    /\ config' = Restored(Tightened(config), config)

\* The emergency branch with the cleanup nested under the scale-down's
\* success.
EmergencyActionsCleanupAfterSuccess(In) ==
    /\ \E returned \in BOOLEAN, dockerOk \in In.docker, snap \in In.snapshots :
        /\ EmergencyScaleDown(In, returned)
        /\ guardrail_actions' =
               [budget_check |-> TRUE,
                emergency_scale_down |-> returned,
                instance_termination |-> FALSE,
                resource_cleanup |-> returned /\ EmergencyResourceCleanup(dockerOk, snap)]
        /\ called' = IF returned
                     THEN {"_emergency_scale_down", "_emergency_resource_cleanup"}
                     ELSE {"_emergency_scale_down"}
    /\ UNCHANGED <<config, pass_config>>

\* The emergency branch (lines 752-760): both sub-actions, one after the other.
EmergencyActions(In) ==
    /\ \E returned \in BOOLEAN, dockerOk \in In.docker, snap \in In.snapshots :
        /\ EmergencyScaleDown(In, returned)
        /\ guardrail_actions' =
               [budget_check |-> TRUE,
                emergency_scale_down |-> returned,
                instance_termination |-> FALSE,
                resource_cleanup |-> EmergencyResourceCleanup(dockerOk, snap)]
    /\ called' = {"_emergency_scale_down", "_emergency_resource_cleanup"}
    /\ UNCHANGED <<config, pass_config>>

\* The preventive branch (lines 763-767).  optimize_spot_instance_pricing has
\* no error handling of its own: when it raises, the handler's except clause
\* returns before _implement_aggressive_scaling is reached.
PreventiveMeasures(In) ==
    /\ guardrail_actions' = [NoGuardrailActions EXCEPT !.budget_check = TRUE]
    /\ \E pricingRaises \in In.pricing_raises :
        IF pricingRaises
        THEN /\ called' = {"optimize_spot_instance_pricing"}
             /\ UNCHANGED <<asg, last_set, config, pass_config>>
        ELSE /\ called' = {"optimize_spot_instance_pricing", "_implement_aggressive_scaling"}
             /\ ImplementAggressiveScaling(In)
    /\ UNCHANGED emergency_calls

\* implement_cost_guardrails, the whole handler.
implement_cost_guardrails(In) ==
    /\ \E status \in BudgetStatuses(In) :
        /\ budget_status' = status
        /\ IF GuardrailBranch(status) = "emergency"
           THEN EmergencyActions(In)
           ELSE IF GuardrailBranch(status) = "preventive"
           THEN PreventiveMeasures(In)
           ELSE /\ guardrail_actions' = [NoGuardrailActions EXCEPT !.budget_check = TRUE]
                /\ called' = {}
                /\ UNCHANGED <<asg, last_set, config, pass_config, emergency_calls>>
    /\ UNCHANGED <<scaling_actions, drain_log, drains, clock, drain_started>>

\* ------------------------------------------------------ PreemptionHandler
NoNotice == [posted |-> FALSE, action |-> "none", time |-> "absent"]

\* What the metadata service may hold at /spot/instance-action: nothing
\* (404), or an action with a time field that is well formed, absent or not
\* in ISO format.
Notices ==
    {[posted |-> TRUE, action |-> a, time |-> t] :
        a \in {"terminate", "stop"}, t \in {"valid", "absent", "garbled"}}

\* The instance runs until the notice window has elapsed.
Alive == ~(notice.posted /\ clock >= NoticeWindow)

\* subprocess timeouts of the drain, in call order: the three commands of
\* _graceful_shutdown_workloads, then the three of _create_emergency_backup.
CommandTimeouts == <<10, 5, 30, 30, 30, 30>>

\* Which of the six commands run until their timeout (the others return at
\* once or fail at once).
TimeoutSets == {{}, {3}, {1, 2, 3}, {4, 5, 6}, {1, 2, 3, 4, 5, 6}}

RECURSIVE SumTimeouts(_)
SumTimeouts(T) ==
    IF T = {} THEN 0
    ELSE LET i == CHOOSE x \in T : TRUE
         IN  CommandTimeouts[i] + SumTimeouts(T \ {i})

\* _scale_up_replacement_instance: one more instance, capped at MaxSize.
ReplacementCapacityUnclamped(group) == group.DesiredCapacity + 1

\* new_capacity of _scale_up_replacement_instance.
ReplacementCapacity(group) == Min2(group.DesiredCapacity + 1, group.MaxSize)

\* The replacement scale-up going on to the set call although the fleet
\* manager returned no group.
ScaleUpReplacementUnchecked(In) ==
    IF asg_name = "none"
    THEN UNCHANGED <<asg, last_set>>
    ELSE RequestCapacity("replacement", ReplacementCapacity(asg), In)

ScaleUpReplacement(In) ==
    IF asg_name = "none"
    THEN UNCHANGED <<asg, last_set>>
    ELSE \E resp \in In.describe :
        IF resp # "ok"
        THEN UNCHANGED <<asg, last_set>>
        ELSE RequestCapacity("replacement", ReplacementCapacity(asg), In)

\* _handle_spot_termination: the remaining time is computed first, inside the
\* same try block as the four sub-steps, so a time string that fromisoformat
\* rejects ends the handler before the alert.  Each sub-step catches its own
\* errors and timeouts.
HandleSpotTermination(termination_time, In) ==
    /\ drains' = drains + 1
    /\ drain_started' = clock
    /\ IF termination_time = "garbled"
       THEN UNCHANGED <<asg, last_set, drain_log, clock>>
       ELSE /\ drain_log' = drain_log \o <<"alert", "quiesce", "scale_up", "backup">>
            /\ ScaleUpReplacement(In)
            /\ \E T \in In.timeouts : clock' = clock + SumTimeouts(T)
    /\ UNCHANGED <<config, scaling_actions, guardrail_actions, budget_status, called,
                   pass_config, emergency_calls>>

\* Answers of the HTTP GET to the metadata service: the document at the
\* path (200) or 404 when there is none, no answer within two seconds, or an
\* answer with an error status whatever the path holds.
HttpOutcomes == {"answered", "timeout", "unavailable"}

\* The test that takes any action found in the document for a notice.
NoticeDetectedAnyAction(http) ==
    http = "answered" /\ notice.posted

\* The value check_spot_interruption returns for an answer.
NoticeDetected(http) ==
    http = "answered" /\ notice.posted /\ notice.action = "terminate"

\* check_spot_interruption, the whole handler, for one answer of the service.
check_spot_interruption(http, In) ==
    IF NoticeDetected(http)
    THEN HandleSpotTermination(notice.time, In)
    ELSE UNCHANGED handlerVars

\* ------------------------------------------------------- CycleOrchestrator
\* The eight steps of run_optimization_cycle, in the order of lines 1078-1085.
Steps == <<"spot_pricing", "auto_scaling", "storage_optimization",
           "cost_monitoring", "cost_guardrails", "usage_pattern_scaling",
           "resource_cleanup", "report_generation">>

StepNames == {Steps[i] : i \in 1..Len(Steps)}

\* No entry yet in optimization_results.
NoResult == [ran |-> FALSE, success |-> FALSE, has_error |-> FALSE, error |-> ""]

\* str(e): the text captured for an exception.
Str(e) == e.msg

\* The result with result['success'] = True assigned before func() is called.
IsolationResultSuccessEarly(exc) ==
    [ran |-> TRUE, success |-> TRUE, has_error |-> exc.raised, error |-> Str(exc)]

\* The result _run_with_isolation builds (lines 1102-1117): error stays None
\* (has_error = FALSE) unless the function raised.
IsolationResult(exc) ==
    IF exc.raised
    THEN [ran |-> TRUE, success |-> FALSE, has_error |-> TRUE, error |-> Str(exc)]
    ELSE [ran |-> TRUE, success |-> TRUE, has_error |-> FALSE, error |-> ""]

\* pc after step k has returned.
AfterStep(k) == IF k = Len(Steps) THEN "summary" ELSE "steps"

\* The exceptions injected into step k.  The two step functions without any
\* error handling of their own (optimize_spot_instance_pricing and
\* _generate_and_save_report) raise exceptions of any kind; the fault injected
\* into the others always carries a message.
StepExceptions(k, In) ==
    IF k \in {1, Len(Steps)}
    THEN In.exceptions
    ELSE {e \in In.exceptions : e.msg # ""}

\* A step run without the try/except: what the function raises leaves
\* run_optimization_cycle, and no later step runs.
RunWithoutIsolation(k, func, In) ==
    /\ pc = "steps"
    /\ Len(executed) = k - 1
    /\ Alive
    /\ executed' = Append(executed, Steps[k])
    /\ \/ /\ func
          /\ pc' = AfterStep(k)
          /\ UNCHANGED <<raised, cycle_status>>
          /\ optimization_results' =
                 [optimization_results EXCEPT ![Steps[k]] = IsolationResult(NoExc)]
       \/ \E e \in StepExceptions(k, In) :
            /\ UNCHANGED handlerVars
            /\ pc' = "done"
            /\ cycle_status' = "crashed"
            /\ raised' = raised \cup {Steps[k]}
            /\ UNCHANGED optimization_results
    /\ UNCHANGED <<asg_name, functionVars, pending, since_poll, notice, start_capacity, jobs_run, loops, polled>>

\* _run_with_isolation(func, step): func runs to its end, or raises on entry
\* (every step function starts with statements outside any try block) and
\* the exception is captured; either way the cycle goes on to the next step.
RunWithIsolation(k, func, In) ==
    /\ pc = "steps"
    /\ Len(executed) = k - 1
    /\ Alive
    /\ executed' = Append(executed, Steps[k])
    /\ pc' = AfterStep(k)
    /\ \/ /\ func
          /\ UNCHANGED raised
          /\ optimization_results' =
                 [optimization_results EXCEPT ![Steps[k]] = IsolationResult(NoExc)]
       \/ \E e \in StepExceptions(k, In) :
            /\ UNCHANGED handlerVars
            /\ raised' = raised \cup {Steps[k]}
            /\ optimization_results' =
                   [optimization_results EXCEPT ![Steps[k]] = IsolationResult(e)]
    /\ UNCHANGED <<asg_name, functionVars, pending, since_poll, notice, start_capacity, cycle_status, jobs_run, loops, polled>>

\* A step function that only reads and logs.
ReadOnlyStep == UNCHANGED handlerVars

\* The interruption check without the return: the warning is logged and the
\* cycle goes on to its steps.
CycleCheckWithoutReturn(In) ==
    /\ pc = "check"
    /\ Alive
    /\ \E http \in In.http :
        /\ check_spot_interruption(http, In)
        /\ pc' = "steps"
        /\ cycle_status' = IF NoticeDetected(http) THEN "aborted" ELSE cycle_status
    /\ start_capacity' = asg.DesiredCapacity
    /\ UNCHANGED <<asg_name, functionVars, pending, since_poll, notice, optimization_results, executed, raised, jobs_run,
                   loops, polled>>

\* run_optimization_cycle, lines 1071-1074: the interruption check; a detected
\* notice ends the cycle before any step.
CycleCheck(In) ==
    /\ pc = "check"
    /\ Alive
    /\ \E http \in In.http :
        /\ check_spot_interruption(http, In)
        /\ pc' = IF NoticeDetected(http) THEN "done" ELSE "steps"
        /\ cycle_status' = IF NoticeDetected(http) THEN "aborted" ELSE cycle_status
    /\ start_capacity' = asg.DesiredCapacity
    /\ UNCHANGED <<asg_name, functionVars, pending, since_poll, notice, optimization_results, executed, raised, jobs_run,
                   loops, polled>>

StepSpotPricing(In) == RunWithIsolation(1, ReadOnlyStep, In)
StepAutoScaling(In) == RunWithIsolation(2, implement_auto_scaling(In), In)
StepStorage(In) == RunWithIsolation(3, ReadOnlyStep, In)
StepCostMonitoring(In) == RunWithIsolation(4, ReadOnlyStep, In)
StepGuardrails(In) == RunWithIsolation(5, implement_cost_guardrails(In), In)
StepPatternScaling(In) == RunWithIsolation(6, implement_usage_pattern_scaling(In), In)
StepCleanup(In) == RunWithIsolation(7, ReadOnlyStep, In)
StepReport(In) == RunWithIsolation(8, ReadOnlyStep, In)

\* Lines 1088-1097: the summary that is logged and the return.
successful_steps == Cardinality({n \in StepNames : optimization_results[n].success})

CycleSummary ==
    /\ pc = "summary"
    /\ cycle_status' = IF successful_steps = Len(Steps) THEN "success" ELSE "issues"
    /\ pc' = "done"
    /\ UNCHANGED <<asg_name, functionVars, pending, since_poll, notice, optimization_results, executed, raised,
                   start_capacity, jobs_run, loops, polled>>
    /\ UNCHANGED handlerVars

\* run_optimization_cycle under the inputs of In.
CycleNext(In) ==
    \/ CycleCheck(In)
    \/ StepSpotPricing(In)
    \/ StepAutoScaling(In)
    \/ StepStorage(In)
    \/ StepCostMonitoring(In)
    \/ StepGuardrails(In)
    \/ StepPatternScaling(In)
    \/ StepCleanup(In)
    \/ StepReport(In)
    \/ CycleSummary

\* ------------------------------------------------------------ input profiles
June(d) == [month |-> 6, day |-> d, leap |-> FALSE]
Quote(p) == [present |-> TRUE, price |-> p]
Reading(u) == [kind |-> "data", avg |-> u]
NoSharedFile == [kind |-> "absent", has |-> FALSE, utilization |-> 0,
                 memory_utilization |-> 0, temperature_c |-> 0]

\* Every collaborator answers, the budget is quiet; any step may raise.
FaultProfile ==
    [exceptions |-> Exceptions,
     primary |-> {Reading(90)}, secondary |-> {NoSharedFile}, predicted |-> {85},
     describe |-> {"ok"}, set_ok |-> {TRUE},
     idle |-> {[kind |-> "ok", avgs |-> {10}]},
     dates |-> {June(10)}, spots |-> {Quote(20)},
     docker |-> {TRUE}, snapshots |-> {[kind |-> "ok", old |-> 1]},
     pricing_raises |-> {FALSE}, timeouts |-> {{}}, http |-> HttpOutcomes,
     durations |-> {0}]

\* No step raises; readings, predictions, fleet-manager answers and the
\* budget position vary (June 10 at 60 cents is a projected overage, June 30
\* at 60 cents a budget used more than twice over).
FleetProfile ==
    [exceptions |-> {},
     primary |-> {Reading(10), Reading(90)}, secondary |-> {NoSharedFile},
     predicted |-> {20, 85},
     describe |-> {"ok", "error"}, set_ok |-> BOOLEAN,
     idle |-> {[kind |-> "ok", avgs |-> {10}], [kind |-> "ok", avgs |-> {}]},
     dates |-> {June(10), June(30)}, spots |-> {Quote(20), Quote(60)},
     docker |-> {TRUE}, snapshots |-> {[kind |-> "ok", old |-> 1]},
     pricing_raises |-> {FALSE}, timeouts |-> {{}}, http |-> {"answered"},
     durations |-> {0}]

\* ----------------------------------------------------------- specifications
Groups ==
    {[MinSize |-> mn, MaxSize |-> mx, DesiredCapacity |-> d] :
        mn \in 0..MaxCapacity, mx \in 0..MaxCapacity, d \in 0..MaxCapacity}

\* The fleet manager keeps MinSize <= DesiredCapacity <= MaxSize.
ValidGroups == {g \in Groups : g.MinSize <= g.DesiredCapacity /\ g.DesiredCapacity <= g.MaxSize}

DefaultConfig ==
    [target_utilization |-> TargetUtilization, scale_down_threshold |-> ScaleDownThreshold]

\* The command line given to main: the flags with their defaults or with
\* other values, valid or not.  Prices and amounts are in cents.
CommandLines ==
    {[action |-> a, max_spot_price |-> p, cost_threshold |-> c, budget_limit |-> b, region |-> r] :
        a \in {"optimize", "report", "schedule"},
        p \in {0, 75, 1000, 1001},
        c \in {0, 5000},
        b \in {-500, 0, BudgetLimit},
        r \in {"us-east-1", "eu-central-1", "mars-1"}}

DefaultCommandLine ==
    [action |-> "optimize", max_spot_price |-> 75, cost_threshold |-> 5000,
     budget_limit |-> BudgetLimit, region |-> "us-east-1"]

\* The defaults of the dataclass fields a flag can overwrite.
DefaultSettings ==
    [max_spot_price |-> 75, cost_alert_threshold |-> 5000, budget_limit |-> BudgetLimit,
     region |-> "us-east-1"]

ValidRegions == {"us-east-1", "us-west-2", "eu-west-1", "eu-central-1",
                 "ap-northeast-1", "ap-southeast-1"}

\* CostOptimizationConfig.validate: the messages it collects.  The idle
\* timeout is fixed at its default of 30 minutes.
ValidationErrors(cfg, set) ==
    (IF set.max_spot_price <= 0 \/ set.max_spot_price > 1000 THEN {"max_spot_price"} ELSE {})
    \cup (IF ~(0 <= cfg.target_utilization /\ cfg.target_utilization <= 100)
          THEN {"target_utilization"} ELSE {})
    \cup (IF ~(0 <= cfg.scale_down_threshold /\ cfg.scale_down_threshold <= 100)
          THEN {"scale_down_threshold"} ELSE {})
    \cup (IF set.cost_alert_threshold <= 0 THEN {"cost_alert_threshold"} ELSE {})
    \cup (IF set.budget_limit <= 0 THEN {"budget_limit"} ELSE {})
    \cup (IF set.region \notin ValidRegions THEN {"region"} ELSE {})

\* What the functions studied on their own start from in the other modes: the
\* default command line, a manager already constructed, no history, no cache.
Started ==
    /\ args = DefaultCommandLine
    /\ startup = "constructed"

Quiet ==
    /\ Started
    /\ history = NoHistory
    /\ price_cache = NoCache

\* State after CostOptimizationManager.__init__, common to every mode, with
\* what the collaborators hold at that time.
Constructed ==
    /\ asg_name \in {"none", "gpu-asg"}
    /\ asg \in ValidGroups
    /\ config = DefaultConfig
    /\ clock = 0
    /\ optimization_results = [n \in StepNames |-> NoResult]
    /\ executed = <<>>
    /\ raised = {}
    /\ start_capacity = asg.DesiredCapacity
    /\ cycle_status = "none"
    /\ scaling_actions = NoScalingActions
    /\ guardrail_actions = NoGuardrailActions
    /\ budget_status = NoBudgetStatus
    /\ called = {}
    /\ drain_log = <<>>
    /\ drains = 0
    /\ jobs_run = 0
    /\ loops = 0
    /\ polled = TRUE
    /\ last_set = NoSet
    /\ pass_config = NoPass
    /\ emergency_calls = "never"
    /\ drain_started = -1
    /\ pending = [op \in Writers |-> -1]
    /\ since_poll = 0
    /\ telemetry = NoTelemetry
    /\ gpu_metrics = NoCall
    /\ hours = 0
    /\ price_cache \in {NoCache, CorruptCache}
    /\ price_call = NoPriceCall
    /\ budget_call = NoBudgetCall
    /\ history \in Histories
    /\ usage_patterns = NoPatterns
    /\ prediction = NoPrediction
    /\ market = {}
    /\ spot_call = NoSpotCall
    /\ spot_seen = [t \in InstanceTypes |-> -1]
    /\ pricing = NoPricing
    /\ registered = {}
    /\ args \in CommandLines
    /\ settings = DefaultSettings
    /\ startup \in {"import", "constructed"}

\* --action optimize: one run of run_optimization_cycle.
Init ==
    /\ Constructed
    /\ Quiet
    /\ asg.MaxSize = MaxCapacity
    /\ notice \in {NoNotice} \cup Notices
    /\ pc = "check"

\* The cycle with faults injected into its steps.
Next == CycleNext(FaultProfile)

Spec == Init /\ [][Next]_vars

\* The answers that are not a terminate notice: any answer when the path
\* holds no terminate action, a timeout or an error status when it does.
NoNoticeProfile ==
    [FaultProfile EXCEPT !.http = IF notice.posted /\ notice.action = "terminate"
                                  THEN {"timeout", "unavailable"}
                                  ELSE HttpOutcomes]

NoNoticeNext == CycleNext(NoNoticeProfile)

\* The cycle under polls that find no terminate notice.
NoNoticeSpec == Init /\ [][NoNoticeNext]_vars

\* The cycle with varying readings and fleet-manager answers.
FleetNext == CycleNext(FleetProfile)

FleetSpec == Init /\ [][FleetNext]_vars

\* ---------------------------------------------------- scheduled operation
cycleVars == <<optimization_results, executed, raised, start_capacity, cycle_status>>

\* The time a job keeps the loop's only thread: run_pending calls the due
\* jobs one after another and returns when the last one has.
Takes(In) == \E d \in In.durations : since_poll' = since_poll + d

\* One job of setup_scheduled_optimization run by schedule.run_pending().
\* No job is due before the loop has slept once.
RunJob(func) ==
    /\ pc = "pending"
    /\ Alive
    /\ loops > 0
    /\ jobs_run < MaxJobs
    /\ func
    /\ jobs_run' = jobs_run + 1
    /\ UNCHANGED <<asg_name, functionVars, pending, notice, pc, polled, loops>>
    /\ UNCHANGED cycleVars

\* A job whose function has no error handling of its own: schedule does not
\* catch what a job raises, so the exception leaves run_pending and the loop.
RunRaisingJob(In) ==
    /\ pc = "pending"
    /\ Alive
    /\ loops > 0
    /\ jobs_run < MaxJobs
    /\ \E raises \in In.pricing_raises : pc' = IF raises THEN "crashed" ELSE pc
    /\ Takes(In)
    /\ jobs_run' = jobs_run + 1
    /\ UNCHANGED <<asg_name, functionVars, pending, notice, polled, loops>>
    /\ UNCHANGED cycleVars
    /\ UNCHANGED handlerVars

JobAutoScaling(In) == RunJob(implement_auto_scaling(In) /\ Takes(In))
JobPatternScaling(In) == RunJob(implement_usage_pattern_scaling(In) /\ Takes(In))
JobSpotPricing(In) == RunRaisingJob(In)
JobGuardrails(In) == RunJob(implement_cost_guardrails(In) /\ Takes(In))
JobCleanup(In) == RunJob(ReadOnlyStep /\ Takes(In))

\* schedule.every(30).seconds.do(optimizer.check_spot_interruption): due in
\* every iteration of the loop, which sleeps 30 seconds.
JobPoll(In) ==
    /\ pc = "pending"
    /\ Alive
    /\ ~polled
    /\ \E http \in In.http : check_spot_interruption(http, In)
    /\ polled' = TRUE
    /\ since_poll' = 0
    /\ UNCHANGED <<asg_name, functionVars, pending, notice, pc, jobs_run, loops>>
    /\ UNCHANGED cycleVars

\* time.sleep(30) at the end of an iteration.
Sleep ==
    /\ pc = "pending"
    /\ Alive
    /\ polled
    /\ loops < MaxLoops
    /\ loops' = loops + 1
    /\ polled' = FALSE
    /\ since_poll' = since_poll + SleepSeconds
    /\ clock' = IF notice.posted THEN clock + SleepSeconds ELSE clock
    /\ UNCHANGED <<asg_name, functionVars, pending, notice, pc, jobs_run, asg, config, scaling_actions,
                   guardrail_actions, budget_status, called, drain_log, drains, last_set,
                   pass_config, emergency_calls, drain_started>>
    /\ UNCHANGED cycleVars

\* The provider posts a reclamation notice for this instance.
SpotReclaim ==
    /\ ~notice.posted
    /\ notice' \in Notices
    /\ clock' = 0
    /\ UNCHANGED <<asg_name, functionVars, pending, since_poll, pc, jobs_run, loops, polled, asg, config, scaling_actions,
                   guardrail_actions, budget_status, called, drain_log, drains, last_set,
                   pass_config, emergency_calls, drain_started>>
    /\ UNCHANGED cycleVars

\* The answers the scheduled jobs get: a quiet budget or one used twice over,
\* a drain whose commands all return at once or all run into their timeouts.
SchedProfile ==
    [exceptions |-> {},
     primary |-> {Reading(90)}, secondary |-> {NoSharedFile}, predicted |-> {85},
     describe |-> {"ok"}, set_ok |-> {TRUE},
     idle |-> {[kind |-> "ok", avgs |-> {10}]},
     dates |-> {June(30)}, spots |-> {Quote(20), Quote(60)},
     docker |-> {TRUE}, snapshots |-> {[kind |-> "ok", old |-> 1]},
     pricing_raises |-> BOOLEAN, timeouts |-> {{}, {1, 2, 3, 4, 5, 6}},
     http |-> HttpOutcomes,
     durations |-> {0}]

\* --action schedule: jobs are registered and none is due in the first
\* iteration, which only sleeps.
SchedInit ==
    /\ Constructed
    /\ Quiet
    /\ asg.MaxSize = MaxCapacity
    /\ notice = NoNotice
    /\ pc = "pending"

SchedNext ==
    \/ JobAutoScaling(SchedProfile)
    \/ JobPatternScaling(SchedProfile)
    \/ JobSpotPricing(SchedProfile)
    \/ JobGuardrails(SchedProfile)
    \/ JobCleanup(SchedProfile)
    \/ JobPoll(SchedProfile)
    \/ Sleep
    \/ SpotReclaim

SchedSpec == SchedInit /\ [][SchedNext]_vars

\* The same loop with the time its jobs take: a job returns at once, or it
\* waits for a command as long as the 30-second timeouts of the subprocess
\* calls allow (docker stop in _emergency_resource_cleanup).
TimedSchedProfile ==
    [exceptions |-> {},
     primary |-> {Reading(90)}, secondary |-> {NoSharedFile}, predicted |-> {85},
     describe |-> {"ok"}, set_ok |-> {TRUE},
     idle |-> {[kind |-> "ok", avgs |-> {10}]},
     dates |-> {June(30)}, spots |-> {Quote(20)},
     docker |-> {TRUE}, snapshots |-> {[kind |-> "ok", old |-> 1]},
     pricing_raises |-> BOOLEAN, timeouts |-> {{}},
     http |-> HttpOutcomes,
     durations |-> {0, 30}]

TimedSchedNext ==
    \/ JobAutoScaling(TimedSchedProfile)
    \/ JobPatternScaling(TimedSchedProfile)
    \/ JobSpotPricing(TimedSchedProfile)
    \/ JobGuardrails(TimedSchedProfile)
    \/ JobCleanup(TimedSchedProfile)
    \/ JobPoll(TimedSchedProfile)
    \/ Sleep
    \/ SpotReclaim

TimedSchedSpec == SchedInit /\ [][TimedSchedNext]_vars

\* ------------------------------------------- handlers on full input domains
\* Every answer of every collaborator.
FullProfile ==
    [exceptions |-> {},
     primary |-> PrimaryInputs(UtilValues), secondary |-> SecondaryInputs(UtilValues),
     predicted |-> PredictedValues,
     describe |-> DescribeResponses, set_ok |-> BOOLEAN,
     idle |-> IdleInputs,
     dates |-> Dates, spots |-> SpotInputs,
     docker |-> BOOLEAN, snapshots |-> SnapshotInputs,
     pricing_raises |-> BOOLEAN, timeouts |-> TimeoutSets, http |-> HttpOutcomes,
     durations |-> {0}]

\* A handler invoked on its own (by its scheduled job or by a caller).
Invoke(func) ==
    /\ pc = "direct"
    /\ func
    /\ UNCHANGED <<asg_name, functionVars, pending, since_poll, notice, pc, jobs_run, loops, polled>>
    /\ UNCHANGED cycleVars

DirectInit ==
    /\ Constructed
    /\ Quiet
    /\ notice = NoNotice
    /\ pc = "direct"

InvokePatternScaling == Invoke(implement_usage_pattern_scaling(FullProfile))
InvokeAutoScaling == Invoke(implement_auto_scaling(FullProfile))
InvokeGuardrails == Invoke(implement_cost_guardrails(FullProfile))

\* The pattern-based scaling, any number of times.
ScalingNext == InvokePatternScaling

ScalingSpec == DirectInit /\ [][ScalingNext]_vars

\* The basic auto-scale check, any number of times.
AutoScalingNext == InvokeAutoScaling

AutoScalingSpec == DirectInit /\ [][AutoScalingNext]_vars

\* The guardrail evaluation, any number of times.
GuardrailNext == InvokeGuardrails

GuardrailSpec == DirectInit /\ [][GuardrailNext]_vars

\* ------------------------------------------- the writers without a fleet
\* The fleet manager knows no group of the name the script holds.
NoFleetProfile == [FleetProfile EXCEPT !.describe = {"empty"}]

Callers == {"auto_scaling", "usage_pattern_scaling", "cost_guardrails", "replacement"}

\* A capacity writer called on its own; pc keeps the name of the last one.
Call(name, func) ==
    /\ pc \in {"direct"} \cup Callers
    /\ func
    /\ pc' = name
    /\ UNCHANGED <<asg_name, functionVars, pending, since_poll, notice, jobs_run, loops, polled>>
    /\ UNCHANGED cycleVars

CallAutoScaling == Call("auto_scaling", implement_auto_scaling(NoFleetProfile))
CallPatternScaling == Call("usage_pattern_scaling", implement_usage_pattern_scaling(NoFleetProfile))
CallGuardrails == Call("cost_guardrails", implement_cost_guardrails(NoFleetProfile))
CallReplacement ==
    Call("replacement",
         /\ ScaleUpReplacement(NoFleetProfile)
         /\ UNCHANGED <<config, scaling_actions, guardrail_actions, budget_status, called,
                        drain_log, drains, clock, pass_config, emergency_calls, drain_started>>)

NoFleetNext ==
    \/ CallAutoScaling
    \/ CallPatternScaling
    \/ CallGuardrails
    \/ CallReplacement

\* Either no group name was found at construction, or the group has gone.
NoFleetSpec == DirectInit /\ [][NoFleetNext]_vars

\* ------------------------------------------------ the reading on its own
\* Averages CloudWatch may report and values the shared file may hold.
MonitorValues == {0, 10, 90}

\* One call of get_gpu_utilization under any state of the two sources.
ReadUtilization ==
    /\ pc = "direct"
    /\ \E primary \in PrimaryInputs(MonitorValues), secondary \in SecondaryInputs(MonitorValues) :
         /\ telemetry' = [primary |-> primary, secondary |-> secondary]
         /\ gpu_metrics' = GetGpuUtilizationCall(primary, secondary)
    /\ UNCHANGED <<asg_name, hours, price_cache, price_call, budget_call, history,
                   usage_patterns, prediction, marketVars, registered, args, settings, startup, pending, since_poll, notice, pc,
                   jobs_run, loops, polled>>
    /\ UNCHANGED handlerVars
    /\ UNCHANGED cycleVars

MonitorNext == ReadUtilization

MonitorSpec == DirectInit /\ [][MonitorNext]_vars

\* -------------------------------------------- the spot prices on their own
marketFrame == <<asg_name, telemetry, gpu_metrics, price_cache, price_call, budget_call,
                 history, usage_patterns, prediction, registered, args, settings, startup,
                 pending, since_poll, notice, pc, jobs_run, loops, polled>>

\* The market publishes a price for an instance type, stamped with the
\* current hour.
PriceChange ==
    /\ pc = "direct"
    /\ Cardinality(market) < MaxEntries
    /\ \E e \in HistoryEntries({hours}) :
         /\ e \notin market
         /\ market' = market \cup {e}
    /\ UNCHANGED <<hours, spot_call, spot_seen, pricing>>
    /\ UNCHANGED marketFrame
    /\ UNCHANGED handlerVars
    /\ UNCHANGED cycleVars

\* One call of get_current_spot_prices.
CallGetCurrentSpotPrices ==
    /\ pc = "direct"
    /\ \E query_ok \in BOOLEAN, response \in Responses(market) :
         LET prices == GetCurrentSpotPrices(query_ok, response)
         IN  /\ spot_call' = [status |-> "returned", query_ok |-> query_ok,
                              response |-> response, prices |-> prices]
             /\ spot_seen' = [t \in InstanceTypes |->
                                 IF prices[t].present THEN prices[t].timestamp ELSE spot_seen[t]]
    /\ UNCHANGED <<hours, market, pricing>>
    /\ UNCHANGED marketFrame
    /\ UNCHANGED handlerVars
    /\ UNCHANGED cycleVars

\* Half a day passes on the market's clock.
MarketHoursPass ==
    /\ pc = "direct"
    /\ hours + 12 <= MarketHours
    /\ hours' = hours + 12
    /\ UNCHANGED <<market, spot_call, spot_seen, pricing>>
    /\ UNCHANGED marketFrame
    /\ UNCHANGED handlerVars
    /\ UNCHANGED cycleVars

MarketInit ==
    /\ Constructed
    /\ Quiet
    /\ asg_name = "none"
    /\ asg.MaxSize = 0
    /\ notice = NoNotice
    /\ pc = "direct"

MarketNext ==
    \/ PriceChange
    \/ CallGetCurrentSpotPrices
    \/ MarketHoursPass

MarketSpec == MarketInit /\ [][MarketNext]_vars

\* ------------------------------------------ the spot optimizer on its own
\* One call of optimize_spot_instance_pricing (the function keeps nothing
\* from one call to the next).  Its own query of the spot prices answers as
\* the one of calculate_potential_savings does, or fails.
CallOptimizeSpotInstancePricing ==
    /\ pc = "direct"
    /\ pricing.status = "never"
    /\ \E analysed \in SpotQuotes, on_demand_prices \in OnDemandQuotes, order \in KeyOrders :
         \E spot_prices \in {analysed, [t \in InstanceTypes |-> -1]} :
            pricing' = OptimizeSpotInstancePricing(spot_prices, analysed, on_demand_prices,
                                                   order, settings.max_spot_price)
    /\ UNCHANGED <<hours, market, spot_call, spot_seen>>
    /\ UNCHANGED marketFrame
    /\ UNCHANGED handlerVars
    /\ UNCHANGED cycleVars

PricingNext == CallOptimizeSpotInstancePricing

PricingSpec == MarketInit /\ [][PricingNext]_vars

\* ------------------------------------------------ from import to action
startupFrame == <<asg_name, telemetry, gpu_metrics, hours, price_cache, price_call,
                  budget_call, history, usage_patterns, prediction, marketVars, registered, args, pending,
                  since_poll, notice, pc, jobs_run, loops, polled>>

\* config = CostOptimizationConfig() at import: __post_init__ validates the
\* defaults and raises ValueError when they fail.
ConstructConfig ==
    /\ startup = "import"
    /\ startup' = IF ValidationErrors(config, DefaultSettings) = {} THEN "main" ELSE "fatal"
    /\ UNCHANGED settings
    /\ UNCHANGED startupFrame
    /\ UNCHANGED handlerVars
    /\ UNCHANGED cycleVars

\* main, "Update config from arguments": plain attribute assignments.
UpdateConfigFromArguments ==
    /\ startup = "main"
    /\ settings' = [max_spot_price |-> args.max_spot_price,
                    cost_alert_threshold |-> args.cost_threshold,
                    budget_limit |-> args.budget_limit,
                    region |-> args.region]
    /\ startup' = "updated"
    /\ UNCHANGED startupFrame
    /\ UNCHANGED handlerVars
    /\ UNCHANGED cycleVars

\* main: the manager is constructed on the config object and the action of
\* the command line starts.
StartAction ==
    /\ startup = "updated"
    /\ startup' = args.action
    /\ UNCHANGED settings
    /\ UNCHANGED startupFrame
    /\ UNCHANGED handlerVars
    /\ UNCHANGED cycleVars

StartupInit ==
    /\ Constructed
    /\ startup = "import"
    /\ history = NoHistory
    /\ price_cache = NoCache
    /\ asg.MaxSize = MaxCapacity
    /\ notice = NoNotice
    /\ pc = "main"

StartupNext ==
    \/ ConstructConfig
    \/ UpdateConfigFromArguments
    \/ StartAction

StartupSpec == StartupInit /\ [][StartupNext]_vars

\* --------------------------------------------------- the schedule action
\* The jobs of setup_scheduled_optimization: interval and function.
IntervalJobs ==
    {<<"15 minutes", "implement_auto_scaling">>,
     <<"30 minutes", "implement_usage_pattern_scaling">>,
     <<"1 hours", "optimize_spot_instance_pricing">>,
     <<"4 hours", "implement_cost_guardrails">>,
     <<"6 hours", "cleanup_unused_resources">>,
     <<"1 days", "generate_cost_report">>,
     <<"30 seconds", "check_spot_interruption">>,
     <<"1 hours", "check_budget_limits">>}

\* The jobs of setup_scheduled_scaling: time of day and function.
TimeOfDayJobs ==
    {<<t, "implement_auto_scaling">> : t \in {"02:00", "06:00", "18:00", "22:00"}}

scheduleFrame == <<asg_name, telemetry, gpu_metrics, hours, price_cache, price_call,
                   budget_call, history, usage_patterns, prediction, marketVars, args,
                   settings, pending, since_poll, notice, pc, jobs_run, loops, polled>>

\* setup_scheduled_optimization up to its loop: the interval jobs are
\* registered.
SetupScheduledOptimization ==
    /\ startup = "schedule"
    /\ registered' = registered \cup IntervalJobs
    /\ startup' = "run_pending"
    /\ UNCHANGED scheduleFrame
    /\ UNCHANGED handlerVars
    /\ UNCHANGED cycleVars

\* schedule.run_pending() in the loop: the due jobs return, or one of them
\* raises; the library does not catch, so the exception leaves the loop,
\* setup_scheduled_optimization and main.
RunPending ==
    /\ startup = "run_pending"
    /\ \E job_raises \in BOOLEAN :
         startup' = IF job_raises THEN "traceback" ELSE "sleep"
    /\ UNCHANGED registered
    /\ UNCHANGED scheduleFrame
    /\ UNCHANGED handlerVars
    /\ UNCHANGED cycleVars

\* time.sleep(30), then the next iteration of while True.  The loop has no
\* break and no return, so the call of setup_scheduled_scaling that follows
\* it in main (line 1389) has no step here.
SleepInLoop ==
    /\ startup = "sleep"
    /\ startup' = "run_pending"
    /\ UNCHANGED registered
    /\ UNCHANGED scheduleFrame
    /\ UNCHANGED handlerVars
    /\ UNCHANGED cycleVars

\* python cost-optimization.py --action schedule, any other flags.
ScheduleInit ==
    /\ StartupInit
    /\ args.action = "schedule"

ScheduleNext ==
    \/ ConstructConfig
    \/ UpdateConfigFromArguments
    \/ StartAction
    \/ SetupScheduledOptimization
    \/ RunPending
    \/ SleepInLoop

\* The program is sequential: its next statement runs.
ScheduleSpec == ScheduleInit /\ [][ScheduleNext]_vars /\ WF_vars(ScheduleNext)

\* ---------------------------------------- the usage profile on its own
\* The call of _analyze_usage_patterns at line 867.
AnalyzePatterns ==
    /\ pc = "direct"
    /\ usage_patterns.status = "never"
    /\ usage_patterns' = [status |-> "returned", value |-> AnalyzeUsagePatterns(history)]
    /\ UNCHANGED <<asg_name, telemetry, gpu_metrics, hours, price_cache, price_call,
                   budget_call, history, prediction, marketVars, registered, args, settings, startup, pending, since_poll, notice, pc,
                   jobs_run, loops, polled>>
    /\ UNCHANGED handlerVars
    /\ UNCHANGED cycleVars

\* The call of _predict_utilization at line 879, at any hour of any day.
Predict ==
    /\ pc = "direct"
    /\ usage_patterns.status = "returned"
    /\ prediction.status = "never"
    /\ \E hour \in 0..23, day \in 0..6 :
         prediction' = [status |-> "returned", hour |-> hour, day |-> day,
                        value |-> PredictUtilization(usage_patterns.value, hour, day)]
    /\ UNCHANGED <<asg_name, telemetry, gpu_metrics, hours, price_cache, price_call,
                   budget_call, history, usage_patterns, marketVars, registered, args, settings, startup, pending, since_poll, notice, pc,
                   jobs_run, loops, polled>>
    /\ UNCHANGED handlerVars
    /\ UNCHANGED cycleVars

\* The history query may answer in any way; the fleet and the cache file
\* play no part.
ProfileInit ==
    /\ Constructed
    /\ Started
    /\ asg_name = "none"
    /\ asg.MaxSize = 0
    /\ price_cache = NoCache
    /\ notice = NoNotice
    /\ pc = "direct"

ProfileNext ==
    \/ AnalyzePatterns
    \/ Predict

ProfileSpec == ProfileInit /\ [][ProfileNext]_vars

\* ------------------------------------- the budget evaluation on its own
\* The first, the fifteenth and the last day of every month of a common and
\* of a leap year.
CalendarDates ==
    {[month |-> m, day |-> d, leap |-> l] :
        m \in 1..12, d \in {1, 15, 28, 29, 30, 31}, l \in BOOLEAN}

ValidDates == {now \in CalendarDates : now.day \in {1, 15, MonthLength(now.month, now.leap)}}

\* One call of check_budget_limits on any day at any spot price.
EvaluateBudget ==
    /\ pc = "direct"
    /\ \E now \in ValidDates, spot \in SpotInputs :
         budget_call' = [status |-> "returned", now |-> now, spot |-> spot,
                         value |-> check_budget_limits(now, spot)]
    /\ UNCHANGED <<asg_name, telemetry, gpu_metrics, hours, price_cache, price_call,
                   history, usage_patterns, prediction, marketVars, registered, args, settings, startup, pending, since_poll, notice, pc,
                   jobs_run, loops, polled>>
    /\ UNCHANGED handlerVars
    /\ UNCHANGED cycleVars

\* The evaluation reads the clock and the spot price only: one fleet is
\* enough.
BudgetInit ==
    /\ DirectInit
    /\ asg_name = "none"
    /\ asg.MaxSize = 0

BudgetNext == EvaluateBudget

BudgetSpec == BudgetInit /\ [][BudgetNext]_vars

\* ------------------------------------------- the price oracle on its own
\* One call of get_on_demand_prices.
CallGetOnDemandPrices ==
    /\ pc = "direct"
    /\ \E client_ok \in BOOLEAN, live \in [InstanceTypes -> LiveAnswers], write \in CacheWrites :
         LET outcome == GetOnDemandPrices(client_ok, live, price_cache, hours)
         IN  /\ price_call' = [status |-> outcome.status, source |-> outcome.source,
                               prices |-> outcome.prices, at |-> hours,
                               client_ok |-> client_ok, live |-> live, write |-> write,
                               cache_before |-> price_cache]
             /\ price_cache' = CacheAfterCall(client_ok, live, price_cache, hours, write)
    /\ UNCHANGED <<asg_name, telemetry, gpu_metrics, hours, budget_call, history,
                   usage_patterns, prediction, marketVars, registered, args, settings, startup, pending, since_poll, notice, pc,
                   jobs_run, loops, polled>>
    /\ UNCHANGED handlerVars
    /\ UNCHANGED cycleVars

\* Half a day passes between two calls.
HoursPass ==
    /\ pc = "direct"
    /\ hours + 12 <= MaxHours
    /\ hours' = hours + 12
    /\ UNCHANGED <<asg_name, telemetry, gpu_metrics, price_cache, price_call, budget_call,
                   history, usage_patterns, prediction, marketVars, registered, args, settings, startup, pending, since_poll, notice, pc,
                   jobs_run, loops, polled>>
    /\ UNCHANGED handlerVars
    /\ UNCHANGED cycleVars

\* The cache file may be missing or left unreadable by an earlier run.
OracleInit ==
    /\ Constructed
    /\ history = NoHistory
    /\ Started
    /\ asg_name = "none"
    /\ asg.MaxSize = 0
    /\ notice = NoNotice
    /\ pc = "direct"

OracleNext ==
    \/ CallGetOnDemandPrices
    \/ HoursPass

OracleSpec == OracleInit /\ [][OracleNext]_vars

\* -------------------------------------------- both telemetry sources silent
\* CloudWatch fails or has no datapoint and the shared file gives no value,
\* so get_gpu_utilization returns its zero defaults; every other collaborator
\* answers in any way it can.
UnknownReadingProfile ==
    [exceptions |-> {},
     primary |-> PrimaryInputs({}), secondary |-> SecondaryInputs({}),
     predicted |-> PredictedValues,
     describe |-> DescribeResponses, set_ok |-> BOOLEAN,
     idle |-> IdleInputs,
     dates |-> {June(10)}, spots |-> {Quote(20)},
     docker |-> {TRUE}, snapshots |-> {[kind |-> "ok", old |-> 0]},
     pricing_raises |-> {FALSE}, timeouts |-> {{}}, http |-> {"answered"},
     durations |-> {0}]

BlindAutoScaling == Invoke(implement_auto_scaling(UnknownReadingProfile))
BlindPatternScaling == Invoke(implement_usage_pattern_scaling(UnknownReadingProfile))

UnknownReadingNext ==
    \/ BlindAutoScaling
    \/ BlindPatternScaling

UnknownReadingSpec == DirectInit /\ [][UnknownReadingNext]_vars

\* ------------------------------------- guardrail and auto-scale passes mixed
\* A budget that is quiet or projected to overrun, readings and idle averages
\* between the configured and the tightened thresholds, a fleet manager that
\* may fail.
ThresholdProfile ==
    [exceptions |-> {},
     primary |-> {Reading(20), Reading(65), Reading(90)}, secondary |-> {NoSharedFile},
     predicted |-> {50},
     describe |-> {"ok", "error"}, set_ok |-> BOOLEAN,
     idle |-> {[kind |-> "ok", avgs |-> {25}], [kind |-> "error", avgs |-> {}]},
     dates |-> {June(10)}, spots |-> {Quote(20), Quote(60)},
     docker |-> {TRUE}, snapshots |-> {[kind |-> "ok", old |-> 1]},
     pricing_raises |-> BOOLEAN, timeouts |-> {{}}, http |-> {"answered"},
     durations |-> {0}]

GuardrailPass == Invoke(implement_cost_guardrails(ThresholdProfile))
AutoScalePass == Invoke(implement_auto_scaling(ThresholdProfile))

\* Guardrail evaluations and basic auto-scale checks in any order.
ThresholdNext ==
    \/ GuardrailPass
    \/ AutoScalePass

ThresholdSpec == DirectInit /\ [][ThresholdNext]_vars

\* ------------------------------------------------- the drain, step by step
\* Variables no step of the poll and its drain writes.
drainFrame == <<asg_name, functionVars, pending, since_poll, notice, config, scaling_actions, guardrail_actions,
                budget_status, called, pass_config, emergency_calls, jobs_run, loops,
                polled>>

\* The poll runs up to one sleep of the scheduler loop after the notice was
\* posted.
PollLater ==
    /\ pc = "watching"
    /\ clock = 0
    /\ clock' = SleepSeconds
    /\ UNCHANGED <<asg, last_set, drain_log, drains, drain_started, pc>>
    /\ UNCHANGED drainFrame
    /\ UNCHANGED cycleVars

\* check_spot_interruption up to the call of _handle_spot_termination
\* (lines 1146-1155); without a notice it returns False.
PollMetadata(In) ==
    /\ pc = "watching"
    /\ \E http \in In.http :
        IF NoticeDetected(http)
        THEN /\ pc' = "notice_detected"
             /\ drains' = drains + 1
             /\ drain_started' = clock
        ELSE /\ pc' = "not_detected"
             /\ UNCHANGED <<drains, drain_started>>
    /\ UNCHANGED <<asg, last_set, drain_log, clock>>
    /\ UNCHANGED drainFrame
    /\ UNCHANGED cycleVars

\* Lines 1170-1173: the remaining time; fromisoformat raising ends the
\* handler in its except clause, and check_spot_interruption returns True.
ComputeTimeRemaining ==
    /\ pc = "notice_detected"
    /\ pc' = IF notice.time = "garbled" THEN "returned" ELSE "alert"
    /\ UNCHANGED <<asg, last_set, drain_log, drains, drain_started, clock>>
    /\ UNCHANGED drainFrame
    /\ UNCHANGED cycleVars

\* _send_spot_termination_alert: the alert is logged, or fails and is logged.
SendAlert ==
    /\ pc = "alert"
    /\ drain_log' = Append(drain_log, "alert")
    /\ pc' = "quiesce"
    /\ UNCHANGED <<asg, last_set, drains, drain_started, clock>>
    /\ UNCHANGED drainFrame
    /\ UNCHANGED cycleVars

\* The shutdown without its except clauses: a command that runs into its
\* timeout raises out of the handler.
GracefulShutdownUncaught(In) ==
    /\ pc = "quiesce"
    /\ drain_log' = Append(drain_log, "quiesce")
    /\ \E T \in {X \cap {1, 2, 3} : X \in In.timeouts} :
        /\ clock' = clock + SumTimeouts(T)
        /\ pc' = IF T = {} THEN "scale_up" ELSE "raised"
    /\ UNCHANGED <<asg, last_set, drains, drain_started>>
    /\ UNCHANGED drainFrame
    /\ UNCHANGED cycleVars

\* _graceful_shutdown_workloads: three commands, each returning or failing at
\* once or running into its timeout; every outcome is swallowed.
GracefulShutdown(In) ==
    /\ pc = "quiesce"
    /\ drain_log' = Append(drain_log, "quiesce")
    /\ \E T \in {X \cap {1, 2, 3} : X \in In.timeouts} : clock' = clock + SumTimeouts(T)
    /\ pc' = "scale_up"
    /\ UNCHANGED <<asg, last_set, drains, drain_started>>
    /\ UNCHANGED drainFrame
    /\ UNCHANGED cycleVars

\* _scale_up_replacement_instance, errors of the fleet manager caught.
ScaleUpStep(In) ==
    /\ pc = "scale_up"
    /\ drain_log' = Append(drain_log, "scale_up")
    /\ ScaleUpReplacement(In)
    /\ pc' = "backup"
    /\ UNCHANGED <<drains, drain_started, clock>>
    /\ UNCHANGED drainFrame
    /\ UNCHANGED cycleVars

\* _create_emergency_backup: three commands as above; then the handler and
\* check_spot_interruption return.
EmergencyBackup(In) ==
    /\ pc = "backup"
    /\ drain_log' = Append(drain_log, "backup")
    /\ \E T \in {X \cap {4, 5, 6} : X \in In.timeouts} : clock' = clock + SumTimeouts(T)
    /\ pc' = "returned"
    /\ UNCHANGED <<asg, last_set, drains, drain_started>>
    /\ UNCHANGED drainFrame
    /\ UNCHANGED cycleVars

\* One poll with a notice posted: any answer of the metadata service, any
\* command hanging, any answer of the fleet manager.
DrainInit ==
    /\ Constructed
    /\ Quiet
    /\ notice \in Notices
    /\ pc = "watching"

DrainNext ==
    \/ PollLater
    \/ PollMetadata(FullProfile)
    \/ ComputeTimeRemaining
    \/ SendAlert
    \/ GracefulShutdown(FullProfile)
    \/ ScaleUpStep(FullProfile)
    \/ EmergencyBackup(FullProfile)

DrainSpec == DrainInit /\ [][DrainNext]_vars

\* The handler is sequential code: whatever statement is next runs.
DrainFairSpec == DrainSpec /\ WF_vars(DrainNext)

\* ------------------------------------ capacity writers running concurrently
\* Every copy of the script, and every job an overlapping scheduler starts,
\* reads the group with describe_auto_scaling_groups, decides, and then calls
\* set_desired_capacity; nothing is held between the two calls, so other
\* writers' calls may fall between them.
MaxInFlight == 2

ConcurrentProfile ==
    [exceptions |-> {},
     primary |-> {Reading(10), Reading(90)}, secondary |-> {NoSharedFile},
     predicted |-> {20, 85},
     describe |-> {"ok"}, set_ok |-> BOOLEAN,
     idle |-> {[kind |-> "ok", avgs |-> {10}]},
     dates |-> {June(10)}, spots |-> {Quote(20)},
     docker |-> {TRUE}, snapshots |-> {[kind |-> "ok", old |-> 0]},
     pricing_raises |-> {FALSE}, timeouts |-> {{}}, http |-> {"answered"},
     durations |-> {0}]

InFlight == {op \in Writers : pending[op] # -1}

\* The value operation op decides to request from what describe returned, or
\* -1 when it decides to make no set call.
DecidedCapacity(op, group, In) ==
    CASE op = "auto_scaling" ->
            {AutoScaleTarget(config, group, cu, check_idle_instances(config, i)) :
                cu \in GpuReadings(In), i \in In.idle}
      [] op = "aggressive_scaling" ->
            {AutoScaleTarget(Tightened(config), group, cu, check_idle_instances(Tightened(config), i)) :
                cu \in GpuReadings(In), i \in In.idle}
      [] op = "usage_pattern_scaling" ->
            {IF Decided(group, cu, pu).target_capacity = group.DesiredCapacity
             THEN -1
             ELSE Decided(group, cu, pu).target_capacity :
                cu \in GpuReadings(In), pu \in In.predicted}
      [] op = "emergency_scale_down" -> {group.MinSize}
      [] op = "replacement" -> {ReplacementCapacity(group)}

\* The describe call and the decision of one writer.
ReadCapacity(op, In) ==
    /\ asg_name # "none"
    /\ pending[op] = -1
    /\ Cardinality(InFlight) < MaxInFlight
    /\ \E t \in DecidedCapacity(op, asg, In) :
         /\ t # -1
         /\ pending' = [pending EXCEPT ![op] = t]
    /\ UNCHANGED <<asg_name, functionVars, since_poll, notice, pc, jobs_run, loops, polled>>
    /\ UNCHANGED handlerVars
    /\ UNCHANGED cycleVars

\* The set_desired_capacity call of a writer that has decided.
WriteCapacity(op, In) ==
    /\ pending[op] # -1
    /\ RequestCapacity(op, pending[op], In)
    /\ pending' = [pending EXCEPT ![op] = -1]
    /\ UNCHANGED <<asg_name, functionVars, since_poll, notice, pc, jobs_run, loops, polled>>
    /\ UNCHANGED <<config, scaling_actions, guardrail_actions, budget_status, called,
                   drain_log, drains, clock, pass_config, emergency_calls, drain_started>>
    /\ UNCHANGED cycleVars

ConcurrentInit ==
    /\ Constructed
    /\ Quiet
    /\ asg_name = "gpu-asg"
    /\ notice = NoNotice
    /\ pc = "direct"

ConcurrentNext ==
    \/ \E op \in Writers : ReadCapacity(op, ConcurrentProfile)
    \/ \E op \in Writers : WriteCapacity(op, ConcurrentProfile)

ConcurrentSpec == ConcurrentInit /\ [][ConcurrentNext]_vars

\* ================================================================ properties
\* The pattern-based handler has reached its decision (whether or not the
\* fleet manager then took the request).
HasDecided == scaling_actions.status \in {"decided", "set_failed"}

\* C1: for every current and predicted utilization and every group with
\* min <= current <= max, the target capacity the pattern-based decision
\* produces lies within [min, max] and differs from the current capacity by
\* at most 1.
TargetWithinBoundsOneStep ==
    HasDecided =>
        /\ scaling_actions.min_capacity <= scaling_actions.target_capacity
        /\ scaling_actions.target_capacity <= scaling_actions.max_capacity
        /\ Abs(scaling_actions.target_capacity - scaling_actions.current_capacity) <= 1

\* A decision taken at MaxSize under a high prediction and a high reading:
\* the case in which a step up would leave the range.
TargetWithinBoundsOneStepWitness ==
    /\ HasDecided
    /\ scaling_actions.current_prediction > 80
    /\ scaling_actions.current_utilization > 85
    /\ scaling_actions.current_capacity = scaling_actions.max_capacity
    /\ scaling_actions.min_capacity < scaling_actions.max_capacity
    /\ scaling_actions.target_capacity = scaling_actions.current_capacity

\* C6: the rules are evaluated in order and the first rule whose whole
\* condition holds wins: with a prediction below 30, a current reading above
\* 85 and capacity below max, the reactive scale-up fires and the target is
\* the current capacity plus one.
ReactiveScaleUpAfterLowPrediction ==
    (/\ HasDecided
     /\ scaling_actions.current_prediction < 30
     /\ scaling_actions.current_utilization > 85
     /\ scaling_actions.current_capacity < scaling_actions.max_capacity)
        => /\ scaling_actions.target_capacity = scaling_actions.current_capacity + 1
           /\ scaling_actions.scaling_action = "scale_up_reactive"

\* C7: whenever the prediction is above 80 and the capacity below max, the
\* decision is a proactive scale-up to the current capacity plus one,
\* whatever the current reading.
HighPredictionScalesUp ==
    (/\ HasDecided
     /\ scaling_actions.current_prediction > 80
     /\ scaling_actions.current_capacity < scaling_actions.max_capacity)
        => /\ scaling_actions.target_capacity = scaling_actions.current_capacity + 1
           /\ scaling_actions.scaling_action = "scale_up_proactive"

\* predicted = 85, current utilization = 10, min = 1, capacity = 2: target 3.
HighPredictionScalesUpWitness ==
    /\ scaling_actions.status = "decided"
    /\ scaling_actions.current_prediction = 85
    /\ scaling_actions.current_utilization = 10
    /\ scaling_actions.min_capacity = 1
    /\ scaling_actions.current_capacity = 2
    /\ scaling_actions.target_capacity = 3
    /\ asg.DesiredCapacity = 3

\* C8: the decision never reduces capacity on a low prediction alone: with a
\* prediction below 30 and a current reading of 40 or more, the target is
\* not lower than the current capacity.
LowPredictionAloneKeepsCapacity ==
    (/\ HasDecided
     /\ scaling_actions.current_prediction < 30
     /\ scaling_actions.current_utilization >= 40)
        => scaling_actions.target_capacity >= scaling_actions.current_capacity

\* predicted = 20, current utilization = 60, capacity above min: no change.
LowPredictionAloneKeepsCapacityWitness ==
    /\ scaling_actions.status = "decided"
    /\ scaling_actions.current_prediction = 20
    /\ scaling_actions.current_utilization = 60
    /\ scaling_actions.current_capacity > scaling_actions.min_capacity
    /\ scaling_actions.target_capacity = scaling_actions.current_capacity
    /\ scaling_actions.scaling_action = "none"

\* C2: a given reclamation notice triggers the drain protocol at most once: a
\* later poll that sees the same notice does not run the drain sub-steps
\* again and does not request a second replacement scale-up.
NoticeDrainsAtMostOnce ==
    Cardinality({i \in DOMAIN drain_log : drain_log[i] = "scale_up"}) <= 1

\* C3: when the check at the start of run_optimization_cycle detects a
\* notice, none of the eight steps is executed in that cycle.
AbortedCycleRunsNoStep ==
    cycle_status = "aborted" =>
        /\ executed = <<>>
        /\ \A n \in StepNames : ~optimization_results[n].ran

\* The cycle has returned after a detected notice whose drain ran.
AbortedCycleRunsNoStepWitness ==
    /\ pc = "done"
    /\ cycle_status = "aborted"
    /\ drains = 1
    /\ drain_log # <<>>

\* C4: in a cycle without a detected notice all eight steps are executed in
\* their fixed order whatever subset of them raises: the steps entered are
\* always a prefix of the fixed order, and the whole of it once the cycle has
\* returned.
AllStepsRunInOrder ==
    /\ Len(executed) <= Len(Steps)
    /\ \A i \in 1..Len(executed) : executed[i] = Steps[i]
    /\ (pc = "done" /\ cycle_status # "aborted") => executed = Steps

\* A finished cycle whose first step raised and whose last step succeeded.
AllStepsRunInOrderWitness ==
    /\ pc = "done"
    /\ executed = Steps
    /\ "spot_pricing" \in raised
    /\ "usage_pattern_scaling" \in raised
    /\ optimization_results["report_generation"].success

\* The cycle has returned its results.
CycleReturned == pc = "done" /\ cycle_status # "aborted"

\* C5, as amended: for every subset F of the eight steps that raise, the
\* result marks exactly the steps in F as failed, each with its error set to
\* the captured text of the exception (which may be the empty string), marks
\* every other step as successful with no error, and the cycle is reported
\* as fully successful if and only if F is empty.
CycleResultMarksRaisedSteps ==
    CycleReturned =>
        /\ \A n \in StepNames :
            /\ optimization_results[n].ran
            /\ n \in raised <=> ~optimization_results[n].success
            /\ n \in raised <=> optimization_results[n].has_error
        /\ cycle_status = "success" <=> raised = {}

\* Two of the eight steps raised, one of them without a message.
CycleResultMarksRaisedStepsWitness ==
    /\ CycleReturned
    /\ Cardinality(raised) = 2
    /\ \E n \in raised : optimization_results[n].error = ""
    /\ \E n \in raised : optimization_results[n].error # ""
    /\ cycle_status = "issues"

\* C5 as stated: every failed step carries a non-empty captured error text.
CycleResultErrorTextNonEmpty ==
    CycleReturned =>
        /\ \A n \in StepNames :
            /\ n \in raised <=> ~optimization_results[n].success
            /\ n \in raised =>
                   optimization_results[n].has_error /\ optimization_results[n].error # ""
            /\ n \notin raised => ~optimization_results[n].has_error
        /\ cycle_status = "success" <=> raised = {}

\* C9, as amended: every single scaling request of the cycle (the auto-scale
\* check, the guardrail's aggressive pass, the pattern-based decision) moves
\* the desired capacity by at most one step, the guardrail's emergency
\* scale-down moves it to MinSize, and it stays within [MinSize, MaxSize]; the
\* changes of the steps of one cycle add up.
EachRequestOneStep ==
    [][/\ asg'.MinSize <= asg'.DesiredCapacity
       /\ asg'.DesiredCapacity <= asg'.MaxSize
       /\ \/ Abs(asg'.DesiredCapacity - asg.DesiredCapacity) <= 1
          \/ /\ last_set'.by = "emergency_scale_down"
             /\ asg'.DesiredCapacity = asg.MinSize]_vars

\* A finished cycle without an emergency that moved the fleet by two or more.
EachRequestOneStepWitness ==
    /\ CycleReturned
    /\ "_emergency_scale_down" \notin called
    /\ last_set.by = "usage_pattern_scaling"
    /\ Abs(asg.DesiredCapacity - start_capacity) >= 2

\* C9 as stated: the desired capacity after the last step differs from the
\* value before the first step by at most 1.
CycleChangesAtMostOneStep ==
    pc = "done" => Abs(asg.DesiredCapacity - start_capacity) <= 1

\* C10: the Emergency boundary is inclusive: a budget utilization of exactly
\* 90.0 percent, and every value above it, triggers the emergency scale-down
\* and the aggressive cleanup.
EmergencyAtNinetyInclusive ==
    (/\ guardrail_actions.budget_check
     /\ budget_status.budget_utilization_percent >= 90 * PercentScale)
        => called = {"_emergency_scale_down", "_emergency_resource_cleanup"}

\* C11: the Preventive tier is entered when the budget utilization is at
\* least 80 percent and below the Emergency threshold, or when the projected
\* overage exceeds 20 percent of the limit, and the guardrail then invokes the
\* spot-price re-optimization and the stricter scaling pass; below 80 percent
\* with an overage of at most 20 percent of the limit it takes no action.
PreventiveFromEightyPercent ==
    guardrail_actions.budget_check =>
        LET u == budget_status.budget_utilization_percent
            over == budget_status.projected_overage * 10 > budget_status.budget_limit * 2
        IN  /\ (u < 90 * PercentScale /\ (u >= 80 * PercentScale \/ over))
                => called = {"optimize_spot_instance_pricing", "_implement_aggressive_scaling"}
            /\ (u < 80 * PercentScale /\ ~over) => called = {}

\* C12: after the guardrail's stricter scaling pass has returned, the
\* configured target_utilization and scale_down_threshold equal their values
\* before the pass, on every path, the failing scaling call included.
ThresholdsRestoredAfterPass ==
    [][/\ config'.target_utilization = config.target_utilization
       /\ config'.scale_down_threshold = config.scale_down_threshold]_vars

\* A stricter pass whose set_desired_capacity call failed has returned.
ThresholdsRestoredAfterPassWitness ==
    /\ "_implement_aggressive_scaling" \in called
    /\ pass_config.by = "aggressive_scaling"
    /\ pass_config.scale_down_threshold = AggressiveThreshold
    /\ last_set.by = "aggressive_scaling"
    /\ ~last_set.ok
    /\ config = DefaultConfig

EmergencyTaken == "_emergency_scale_down" \in called

\* C14: in the Emergency tier the two sub-actions are independent: the
\* resource cleanup is attempted whether the emergency scale-down succeeded,
\* failed with an error or was skipped for lack of a fleet, and the guardrail
\* evaluation returns its result in all those cases.
EmergencyCleanupAlwaysAttempted ==
    /\ EmergencyTaken =>
           /\ "_emergency_resource_cleanup" \in called
           /\ guardrail_actions.budget_check
           /\ emergency_calls \in {"ok", "set_error", "describe_error", "not_found", "skipped"}
    /\ (guardrail_actions.budget_check
        /\ budget_status.budget_utilization_percent > 90 * PercentScale) => EmergencyTaken

\* An emergency whose scale-down failed with an error of the set call and
\* whose cleanup ran and cleaned something.
EmergencyCleanupAlwaysAttemptedWitness ==
    /\ EmergencyTaken
    /\ emergency_calls = "set_error"
    /\ ~guardrail_actions.emergency_scale_down
    /\ "_emergency_resource_cleanup" \in called
    /\ guardrail_actions.resource_cleanup

\* C15: when the guardrail classifies Emergency, the fleet exists and the
\* fleet-manager calls succeed, the desired capacity is set to exactly the
\* fleet minimum whatever the current capacity is, and emergency_scale_down
\* is reported true only in that case.
EmergencySetsFleetMinimum ==
    EmergencyTaken =>
        /\ guardrail_actions.emergency_scale_down <=> emergency_calls = "ok"
        /\ emergency_calls = "ok" =>
               /\ asg_name # "none"
               /\ asg.DesiredCapacity = asg.MinSize
               /\ last_set = [by |-> "emergency_scale_down", value |-> asg.MinSize, ok |-> TRUE]

\* An emergency that found a fleet well above its minimum and took it there.
EmergencySetsFleetMinimumWitness ==
    /\ EmergencyTaken
    /\ guardrail_actions.emergency_scale_down
    /\ asg.MaxSize - asg.MinSize >= 2
    /\ asg.DesiredCapacity = asg.MinSize

\* The four drain sub-steps in their order.
DrainSteps == <<"alert", "quiesce", "scale_up", "backup">>

\* C16: on a detected notice the drain runs its four sub-steps in the fixed
\* order alert, quiesce, replacement scale-up, backup, each attempted whatever
\* the earlier ones did.
DrainRunsFourSubSteps ==
    /\ Len(drain_log) <= Len(DrainSteps)
    /\ \A i \in 1..Len(drain_log) : drain_log[i] = DrainSteps[i]
    /\ pc = "returned" => drain_log = DrainSteps

\* C17: if every time-limited command of the drain runs until its timeout,
\* the drain still ends before the notice window has elapsed.
DrainWithinNoticeWindow ==
    (/\ pc = "returned"
     /\ drain_log = DrainSteps
     /\ clock - drain_started = SumTimeouts(DOMAIN CommandTimeouts))
        => clock < NoticeWindow

\* C18: once a notice is detected the handler always returns (and
\* check_spot_interruption reports the notice), whatever sub-steps fail or
\* time out.
NoticeDetectedLeadsToReturned == (pc = "notice_detected") ~> (pc = "returned")

\* The handler has returned after a drain in which the quiesce commands ran
\* into their timeouts and the fleet manager refused the replacement.
NoticeDetectedLeadsToReturnedWitness ==
    /\ pc = "returned"
    /\ drains = 1
    /\ drain_log = DrainSteps
    /\ clock - drain_started >= SumTimeouts({1, 2, 3})
    /\ last_set.by = "replacement"
    /\ ~last_set.ok

\* C19: whatever way the writers of the desired capacity interleave their
\* describe and set calls, every value a writer decides on and every value a
\* writer has sent to set_desired_capacity lies within [MinSize, MaxSize].
WrittenCapacityWithinBounds ==
    /\ \A op \in InFlight : asg.MinSize <= pending[op] /\ pending[op] <= asg.MaxSize
    /\ last_set.by # "none" => asg.MinSize <= last_set.value /\ last_set.value <= asg.MaxSize

\* One writer's call has been accepted while another writer still holds a
\* value it decided before that call, two instances away from the capacity
\* now set.
WrittenCapacityWithinBoundsWitness ==
    /\ last_set.by # "none"
    /\ last_set.ok
    /\ asg.DesiredCapacity = last_set.value
    /\ \E op \in InFlight : Abs(pending[op] - asg.DesiredCapacity) >= 2

\* C20: in scheduled mode a due interruption poll is never held back by
\* another job: whenever the poll has not yet run in the current iteration of
\* the loop, no more than its 30-second cadence has passed since it last ran.
DuePollNotHeldBack ==
    (pc = "pending" /\ ~polled) => since_poll <= SleepSeconds

\* C21: when both telemetry sources yield no data, so that the reading is
\* zero, neither the basic auto-scale check nor the pattern-based scaling
\* changes the desired capacity of the fleet.
UnknownReadingKeepsCapacity ==
    [][asg'.DesiredCapacity = asg.DesiredCapacity]_vars

\* C22: a value of the shared file is used for a field only when CloudWatch
\* left that field at its zero default: a non-zero GPU utilization supplied by
\* CloudWatch is what the reading returns.
PrimaryValueNeverReplaced ==
    (gpu_metrics.status = "returned"
        /\ telemetry.primary.kind = "data" /\ telemetry.primary.avg # 0)
    => gpu_metrics.value.gpu_utilization = telemetry.primary.avg

\* C23: get_gpu_utilization never raises, whatever the two sources do, and
\* when both fail every field of the reading is zero.
ReadingNeverRaises ==
    /\ gpu_metrics.status # "raised"
    /\ (gpu_metrics.status = "returned"
            /\ telemetry.primary.kind \in {"error", "empty"}
            /\ telemetry.secondary.kind \in {"absent", "unreadable", "nogpu"})
       => gpu_metrics.value = ZeroMetrics

\* CloudWatch raised, the shared file could not be parsed, and the call
\* returned.
ReadingNeverRaisesWitness ==
    /\ gpu_metrics.status = "returned"
    /\ telemetry.primary.kind = "error"
    /\ telemetry.secondary.kind = "unreadable"

\* The live fetch of instance type t failed in the latest call.
FetchFailed(t) == ~price_call.client_ok \/ price_call.live[t].kind = "error"

\* C24: when the live fetch fails for an instance type and a cache younger
\* than 24 hours exists, the price returned for that type is the cached one;
\* the hardcoded table is used only without such a cache.
FailedFetchReturnsFreshCache ==
    price_call.status = "returned" =>
        \A t \in InstanceTypes :
            (FetchFailed(t) /\ CacheUsable(price_call.cache_before, price_call.at))
                => price_call.prices[t] = price_call.cache_before.prices[t]

\* C25: get_on_demand_prices never propagates an error: whatever the live
\* fetch, the cache read and the cache write do, it returns a price mapping.
PricesNeverRaise ==
    /\ price_call.status # "raised"
    /\ price_call.status = "returned" => price_call.prices \in [InstanceTypes -> Int]

\* The pricing client could not be created, the cache file could not be
\* loaded, and the call returned the table.
PricesNeverRaiseWitness ==
    /\ price_call.status = "returned"
    /\ ~price_call.client_ok
    /\ price_call.cache_before.state = "corrupt"
    /\ price_call.prices = FallbackPrices

\* The live fetch succeeded for every instance type in the latest call.
LiveFetchSucceeded ==
    /\ price_call.status = "returned"
    /\ price_call.client_ok
    /\ \A t \in InstanceTypes : price_call.live[t].kind = "price"

FreshCacheOfCall ==
    [state |-> "valid", timestamp |-> price_call.at, prices |-> price_call.prices]

BudgetUsesRealMonthLength ==
    budget_call.status = "returned" =>
        LET days == MonthLength(budget_call.now.month, budget_call.now.leap)
            daily == monitor_daily_costs(budget_call.spot)
        IN  /\ days \in 28..31
            /\ budget_call.value.estimated_monthly_cost = daily * days
            /\ budget_call.value.actual_monthly_cost = daily * budget_call.now.day
            /\ budget_call.value.days_remaining = days - budget_call.now.day
            /\ budget_call.value.days_remaining >= 0
            /\ budget_call.value.projected_overage >= 0

\* C28: with no historical datapoints, or when the history query fails, the
\* profile has the value 50 in every one of the 24 hourly and 7 daily
\* buckets, and predicting on it at hour 3 returns 40.
MissingHistoryGivesDefaultProfile ==
    (usage_patterns.status = "returned" /\ (history.kind = "error" \/ history.points = <<>>))
    => /\ \A h \in 0..23 : usage_patterns.value.hourly_patterns[h] = 50 * AverageScale
       /\ \A d \in 0..6 : usage_patterns.value.daily_patterns[d] = 50 * AverageScale
       /\ (prediction.status = "returned" /\ prediction.hour = 3)
            => prediction.value = 40 * PredictionScale

\* The history query returned no datapoint and a prediction was made for
\* three o'clock at night.
MissingHistoryGivesDefaultProfileWitness ==
    /\ usage_patterns.status = "returned"
    /\ history.kind = "data"
    /\ history.points = <<>>
    /\ prediction.status = "returned"
    /\ prediction.hour = 3

\* The factor the adjustment applies, in tenths.
AdjustmentTenths(hour, day) ==
    IF hour \in 9..17 /\ day \in 0..4 THEN 12
    ELSE IF hour < 6 \/ hour > 22 THEN 8
    ELSE IF day \in 5..6 THEN 9
    ELSE 10

\* C29: for every profile, hour and weekday the prediction equals
\* (0.7 x hourly average + 0.3 x daily average) x m clamped to [0, 100], with
\* m = 1.2 for hours 9 to 17 on a weekday, 0.8 for hours below 6 or above 22,
\* 0.9 for a weekend slot that is not late night and 1 otherwise; the result
\* is within [0, 100].
PredictionIsClampedAdjustedBlend ==
    prediction.status = "returned" =>
        LET blend == 7 * usage_patterns.value.hourly_patterns[prediction.hour]
                        + 3 * usage_patterns.value.daily_patterns[prediction.day]
            exact == blend * AdjustmentTenths(prediction.hour, prediction.day)
        IN  /\ 0 <= prediction.value
            /\ prediction.value <= 100 * PredictionScale
            /\ prediction.value =
                    (IF exact > 100 * PredictionScale THEN 100 * PredictionScale
                     ELSE IF exact < 0 THEN 0 ELSE exact)

\* A prediction for a late-night hour of a weekend day on a profile built
\* from datapoints, and not the default of 50.
PredictionIsClampedAdjustedBlendWitness ==
    /\ prediction.status = "returned"
    /\ prediction.hour = 3
    /\ prediction.day = 6
    /\ usage_patterns.value.data_points > 0
    /\ prediction.value # 40 * PredictionScale

\* C30: no optimization cycle and no scheduled operation runs with a
\* configuration that fails validation: an out-of-range setting, one given
\* by a command-line flag included, is fatal before the first cycle.
NoRunWithInvalidConfig ==
    startup \in {"optimize", "schedule"} => ValidationErrors(config, settings) = {}

\* The entries of the latest response for an instance type.
EntriesOf(t) ==
    {spot_call.response[i] : i \in {j \in 1..Len(spot_call.response) :
                                      spot_call.response[j].InstanceType = t}}

\* C31: the result of get_current_spot_prices holds an instance type exactly
\* when the returned history has an entry for it, with the price of an entry
\* of greatest timestamp among the entries of that type, whatever the order
\* of the entries; a failed query gives the empty mapping and no error.
LatestEntryPerType ==
    spot_call.status # "never" =>
        /\ spot_call.status = "returned"
        /\ ~spot_call.query_ok => spot_call.prices = NoQuotes
        /\ spot_call.query_ok =>
              \A t \in InstanceTypes :
                 /\ spot_call.prices[t].present <=> EntriesOf(t) # {}
                 /\ spot_call.prices[t].present =>
                       /\ \A e \in EntriesOf(t) : e.Timestamp <= spot_call.prices[t].timestamp
                       /\ \E e \in EntriesOf(t) :
                             /\ e.Timestamp = spot_call.prices[t].timestamp
                             /\ e.SpotPrice = spot_call.prices[t].price

\* A response that lists an older entry of a type after a newer one.
LatestEntryPerTypeWitness ==
    /\ spot_call.status = "returned"
    /\ spot_call.query_ok
    /\ \E i, j \in 1..Len(spot_call.response) :
          /\ i < j
          /\ spot_call.response[i].InstanceType = spot_call.response[j].InstanceType
          /\ spot_call.response[i].Timestamp > spot_call.response[j].Timestamp
          /\ spot_call.prices[spot_call.response[i].InstanceType].price
                = spot_call.response[i].SpotPrice
          /\ spot_call.response[i].SpotPrice # spot_call.response[j].SpotPrice

DrainAttemptedWhateverTime ==
    \A t \in {"valid", "absent", "garbled"} :
       (pc = "returned" /\ notice.time = t) =>
          \A i \in 1..Len(DrainSteps) :
             \E j \in 1..Len(drain_log) : drain_log[j] = DrainSteps[i]

\* C34: the basic auto-scale check requests current + 1 when the reading is
\* above target_utilization and the capacity below max; it requests
\* current - 1 only when the reading is below scale_down_threshold, the
\* capacity above min and the idle check found an idle instance; otherwise
\* it makes no set call.
AutoScaleRules ==
    pass_config.by = "auto_scaling" =>
        LET p == pass_config
            up == p.current_utilization > p.target_utilization
                     /\ p.current_capacity < asg.MaxSize
            down == /\ p.current_utilization < p.scale_down_threshold
                    /\ p.current_capacity > asg.MinSize
                    /\ p.idle_instances >= 1
            set == p.new_capacity # -1
        IN  /\ up => set /\ p.new_capacity = p.current_capacity + 1
            /\ set /\ p.new_capacity = p.current_capacity - 1 => down
            /\ ~up /\ ~down => ~set
            /\ set => /\ p.new_capacity \in {p.current_capacity + 1, p.current_capacity - 1}
                      /\ last_set.by = "auto_scaling"
                      /\ last_set.value = p.new_capacity

\* A pass that found the reading below the threshold and the capacity above
\* min but no idle instance, and made no set call.
AutoScaleRulesWitness ==
    /\ pass_config.by = "auto_scaling"
    /\ pass_config.current_utilization < pass_config.scale_down_threshold
    /\ pass_config.current_capacity > asg.MinSize
    /\ pass_config.idle_instances = 0
    /\ pass_config.new_capacity = -1
    /\ last_set = NoSet

\* C35: with no fleet configured, or with a fleet manager that reports no
\* such fleet, the auto-scale check, the pattern scaling, the emergency
\* scale-down and the replacement scale-up make no set-desired-capacity call
\* and return without a scaling action and without an error.
NoFleetNoSetCall ==
    /\ last_set = NoSet
    /\ asg.DesiredCapacity = start_capacity
    /\ pass_config = NoPass
    /\ scaling_actions.status \in {"never", "no_asg", "not_found"}
    /\ scaling_actions.scaling_action = "none"
    /\ scaling_actions.status = "no_asg" <=>
          (asg_name = "none" /\ scaling_actions.status # "never")
    /\ EmergencyTaken =>
          /\ emergency_calls = (IF asg_name = "none" THEN "skipped" ELSE "not_found")
          /\ ~guardrail_actions.emergency_scale_down
          /\ guardrail_actions.budget_check

\* The replacement scale-up has returned for a group that has gone, after
\* the pattern scaling and an emergency scale-down found it gone as well.
NoFleetNoSetCallWitness ==
    /\ pc = "replacement"
    /\ asg_name # "none"
    /\ asg.DesiredCapacity < asg.MaxSize
    /\ scaling_actions.status = "not_found"
    /\ scaling_actions.current_prediction > 80
    /\ EmergencyTaken
    /\ emergency_calls = "not_found"
    /\ last_set = NoSet

\* C36: a poll counts as a notice only with status 200 and action terminate;
\* a failing poll, a timeout, another status or another action starts no
\* drain sub-step, is reported as no notice, and the cycle executes all
\* eight steps.
OtherAnswersAreNoNotice ==
    /\ drains = 0
    /\ drain_log = <<>>
    /\ cycle_status # "aborted"
    /\ pc # "check" => pc \in {"steps", "summary", "done"}
    /\ pc = "done" => /\ executed = Steps
                      /\ \A n \in StepNames : optimization_results[n].ran

\* A cycle that ran to its end on an instance whose terminate notice the
\* poll did not get (the request timed out or was answered with an error).
OtherAnswersAreNoNoticeWitness ==
    /\ notice.posted
    /\ notice.action = "terminate"
    /\ pc = "done"
    /\ executed = Steps
    /\ drains = 0

\* C37: in a cycle whose guardrail classified Emergency and set the desired
\* capacity to the fleet minimum, no later step of the same cycle sets the
\* desired capacity above the minimum.
EmergencyMinimumKeptInCycle ==
    (EmergencyTaken /\ emergency_calls = "ok") => asg.DesiredCapacity <= asg.MinSize

\* C38: the price cache only ever holds prices obtained by a successful live
\* fetch: a hardcoded fallback price substituted for an instance type whose
\* fetch failed is never written to the cache under a fresh timestamp.
CacheHoldsOnlyLivePrices ==
    [][(price_cache' # price_cache /\ price_cache'.state = "valid") =>
          \A t \in InstanceTypes :
             price_cache'.prices[t] # -1 =>
                /\ price_call'.live[t].kind = "price"
                /\ price_cache'.prices[t] = price_call'.live[t].usd]_vars

\* The instance types optimize_spot_instance_pricing may select: analysed,
\* at or under the price ceiling, with positive savings.
Qualifying ==
    LET a == SavingsAnalysis(pricing.analysed, pricing.on_demand_prices)
    IN  {t \in InstanceTypes :
            /\ a[t].present
            /\ a[t].spot_price <= pricing.max_spot_price
            /\ a[t].hourly_savings > 0}

\* C39: optimize_spot_instance_pricing never selects an instance type whose
\* spot price exceeds max_spot_price; among the types at or under the ceiling
\* it selects one with the greatest positive savings percentage, and none
\* when no type qualifies.
BestOptionUnderCeiling ==
    pricing.status # "never" =>
        LET a == SavingsAnalysis(pricing.analysed, pricing.on_demand_prices)
            b == pricing.best_option
        IN  /\ b = "none" <=> Qualifying = {}
            /\ b # "none" =>
                  /\ b \in Qualifying
                  /\ a[b].spot_price <= pricing.max_spot_price
                  /\ \A t \in Qualifying : ~SavesMore(a[t], a[b])

\* The type with the greater savings is over the ceiling and listed first;
\* the other one is selected.
BestOptionUnderCeilingWitness ==
    /\ pricing.status = "returned"
    /\ pricing.best_option = "g5.xlarge"
    /\ pricing.order[1] = "g4dn.xlarge"
    /\ pricing.analysed["g4dn.xlarge"] > pricing.max_spot_price
    /\ pricing.on_demand_prices["g4dn.xlarge"] = 100
    /\ pricing.analysed["g5.xlarge"] = pricing.max_spot_price
    /\ pricing.on_demand_prices["g5.xlarge"] = 100

\* C40: in schedule mode every job ends up registered: the time-of-day jobs
\* of setup_scheduled_scaling (02:00, 06:00, 18:00, 22:00) are eventually
\* registered in addition to the interval jobs.
ScheduleModeRegistersEveryJob ==
    (startup = "schedule") ~> (IntervalJobs \cup TimeOfDayJobs \subseteq registered)

============================================================================
